---- MODULE Spec2Model ----
(***************************************************************************)
(* db_mcp_server: the dialect-aware SQL query builder, the query executor, *)
(* the SQLite connector's transaction handling and the schema manager's    *)
(* alter_table (native ALTER path and SQLite table rebuild), create_table, *)
(* list_tables, get_table_schema and column type normalisation.            *)
(*                                                                         *)
(* SQL text is a sequence of tokens (strings); Python values (scalars,     *)
(* None, single-key operator dicts) are records of one shape, PyVal.       *)
(***************************************************************************)
EXTENDS Integers, Sequences, FiniteSets, TLC

VARIABLES
    req,        \* the request handed to the QueryBuilder, or the call made last
    res,        \* what the QueryBuilder returned, or the outcome of that call
    connector,  \* the connector and the database behind it
    hist,       \* the last successful transaction call, the rows at begin;
                \* or the calls a QueryBuilder has served, oldest first
    builder     \* the QueryBuilder instance

vars == <<req, res, connector, hist, builder>>

(***************************************************************************)
(* Bounds of the builder's inputs.                                         *)
(***************************************************************************)
MaxConds == 2       \* entries of a where mapping
MaxOperand == 2     \* elements of an in / not_in / between operand list

(***************************************************************************)
(* Python values.                                                          *)
(***************************************************************************)
Scalar(v) == [kind |-> "scalar", op |-> "", operand |-> <<v>>]
PyNone == [kind |-> "none", op |-> "", operand |-> <<>>]
\* a single-key dict {op: operand}; a scalar operand is held as <<operand>>
OpDict(op, operand) == [kind |-> "dict1", op |-> op, operand |-> operand]

Falsy == {"False", "0", ""}
Truthy(v) == v \notin Falsy

Entry(c, v) == [column |-> c, value |-> v]

Range(s) == {s[i] : i \in DOMAIN s}

RECURSIVE Flatten(_)
Flatten(ss) == IF ss = <<>> THEN <<>> ELSE Head(ss) \o Flatten(Tail(ss))

\* sep.join(parts), each part a token sequence
RECURSIVE Join(_, _)
Join(parts, sep) ==
    IF parts = <<>> THEN <<>>
    ELSE IF Len(parts) = 1 THEN Head(parts)
    ELSE Head(parts) \o <<sep>> \o Join(Tail(parts), sep)

(***************************************************************************)
(* QueryBuilder                                                            *)
(***************************************************************************)
Dialects == {"sqlite", "postgres", "mysql", "mssql"}

\* f"${n}" on postgres, "?" elsewhere
Placeholder(db_type, n) == IF db_type = "postgres" THEN "$" \o ToString(n) ELSE "?"

\* [f"${base + j + 1}" for j in range(n)]  /  ["?"] * n
PlaceholderList(db_type, base, n) == [j \in 1..n |-> <<Placeholder(db_type, base + j)>>]

\* F applied to the value of v
With(v, F(_)) == CHOOSE y \in {F(x) : x \in {v}} : TRUE

ListOps == {"in", "not_in", "between"}
CompareOps == {">", "<", ">=", "<=", "<>", "!=", "like", "not_like"}

op_map(operator) ==
    CASE operator = "like" -> "LIKE"
      [] operator = "not_like" -> "NOT LIKE"
      [] OTHER -> operator

ScalarParams(operand) == [j \in 1..Len(operand) |-> Scalar(operand[j])]

\* the loop body without the short circuit of an empty in or not_in operand
WhereCondition_no_short_circuit(db_type, column, value, base) ==
    IF value.kind = "dict1" THEN
        CASE value.op = "in" ->
                IF FALSE
                THEN [text |-> <<"1", "=", "0">>, params |-> <<>>]
                ELSE [text |-> <<column, "IN", "(">>
                                \o Join(PlaceholderList(db_type, base, Len(value.operand)), ",")
                                \o <<")">>,
                      params |-> ScalarParams(value.operand)]
          [] value.op = "not_in" ->
                IF FALSE
                THEN [text |-> <<"1", "=", "1">>, params |-> <<>>]
                ELSE [text |-> <<column, "NOT IN", "(">>
                                \o Join(PlaceholderList(db_type, base, Len(value.operand)), ",")
                                \o <<")">>,
                      params |-> ScalarParams(value.operand)]
          [] value.op = "between" ->
                [text |-> <<column, "BETWEEN", Placeholder(db_type, base + 1),
                            "AND", Placeholder(db_type, base + 2)>>,
                 params |-> ScalarParams(value.operand)]
          [] value.op \in CompareOps ->
                [text |-> <<column, op_map(value.op), Placeholder(db_type, base + 1)>>,
                 params |-> <<Scalar(value.operand[1])>>]
          [] value.op = "is_null" ->
                [text |-> IF Truthy(value.operand[1])
                          THEN <<column, "IS NULL">> ELSE <<column, "IS NOT NULL">>,
                 params |-> <<>>]
          [] OTHER ->
                [text |-> <<column, "=", Placeholder(db_type, base + 1)>>,
                 params |-> <<value>>]
    ELSE IF value.kind = "none" THEN
        [text |-> <<column, "IS NULL">>, params |-> <<>>]
    ELSE
        [text |-> <<column, "=", Placeholder(db_type, base + 1)>>,
         params |-> <<value>>]

\* One iteration of the loop of _build_where_clause: the condition text and
\* the parameters it appends; base is offset + len(params) at that point.
WhereCondition(db_type, column, value, base) ==
    IF value.kind = "dict1" THEN
        CASE value.op = "in" ->
                IF Len(value.operand) = 0
                THEN [text |-> <<"1", "=", "0">>, params |-> <<>>]
                ELSE [text |-> <<column, "IN", "(">>
                                \o Join(PlaceholderList(db_type, base, Len(value.operand)), ",")
                                \o <<")">>,
                      params |-> ScalarParams(value.operand)]
          [] value.op = "not_in" ->
                IF Len(value.operand) = 0
                THEN [text |-> <<"1", "=", "1">>, params |-> <<>>]
                ELSE [text |-> <<column, "NOT IN", "(">>
                                \o Join(PlaceholderList(db_type, base, Len(value.operand)), ",")
                                \o <<")">>,
                      params |-> ScalarParams(value.operand)]
          [] value.op = "between" ->
                [text |-> <<column, "BETWEEN", Placeholder(db_type, base + 1),
                            "AND", Placeholder(db_type, base + 2)>>,
                 params |-> ScalarParams(value.operand)]
          [] value.op \in CompareOps ->
                [text |-> <<column, op_map(value.op), Placeholder(db_type, base + 1)>>,
                 params |-> <<Scalar(value.operand[1])>>]
          [] value.op = "is_null" ->
                [text |-> IF Truthy(value.operand[1])
                          THEN <<column, "IS NULL">> ELSE <<column, "IS NOT NULL">>,
                 params |-> <<>>]
          [] OTHER ->
                [text |-> <<column, "=", Placeholder(db_type, base + 1)>>,
                 params |-> <<value>>]
    ELSE IF value.kind = "none" THEN
        [text |-> <<column, "IS NULL">>, params |-> <<>>]
    ELSE
        [text |-> <<column, "=", Placeholder(db_type, base + 1)>>,
         params |-> <<value>>]

\* The loop of _build_where_clause over conditions.items(), from entry i on:
\* the list where_conditions and the list params.
RECURSIVE WhereLoop(_, _, _, _, _, _)
\* the loop with the operand, not the value, appended for an unknown operator
WhereLoop_unknown_operand(db_type, conditions, offset, i, where_conditions, params) ==
    IF i > Len(conditions) THEN [where_conditions |-> where_conditions, params |-> params]
    ELSE LET c == WhereCondition(db_type, conditions[i].column, conditions[i].value,
                                 offset + Len(params))
             v == conditions[i].value
         IN  WhereLoop(db_type, conditions, offset, i + 1,
                       Append(where_conditions, c.text),
                       params \o (IF v.kind = "dict1" /\ v.op \notin ListOps \cup CompareOps
                                     /\ v.op # "is_null"
                                  THEN <<Scalar(v.operand[1])>> ELSE c.params))

WhereLoop(db_type, conditions, offset, i, where_conditions, params) ==
    IF i > Len(conditions) THEN [where_conditions |-> where_conditions, params |-> params]
    ELSE LET c == WhereCondition(db_type, conditions[i].column, conditions[i].value,
                                 offset + Len(params))
         IN  WhereLoop(db_type, conditions, offset, i + 1,
                       Append(where_conditions, c.text), params \o c.params)

\* _build_where_clause that joins the conditions with OR
build_where_clause_or(db_type, conditions, offset) ==
    LET r == WhereLoop(db_type, conditions, offset, 1, <<>>, <<>>)
    IN  [clause |-> Join(r.where_conditions, "OR"), params |-> r.params]

build_where_clause(db_type, conditions, offset) ==
    LET r == WhereLoop(db_type, conditions, offset, 1, <<>>, <<>>)
    IN  [clause |-> Join(r.where_conditions, "AND"), params |-> r.params]

Ok(query, params) == [status |-> "ok", query |-> query, params |-> params]
ValueError == [status |-> "ValueError", query |-> <<>>, params |-> <<>>]

NoInt == [given |-> FALSE, n |-> 0]
SomeInt(n) == [given |-> TRUE, n |-> n]

\* order_by: a leading "-" marks descending
OrderItem(col) == IF col.desc THEN <<col.name, "DESC">> ELSE <<col.name, "ASC">>

\* Python str operations, character by character
Char(str, i) == SubSeq(str, i, i)
Rest(str) == SubSeq(str, 2, Len(str))
Contains(str, sub) ==
    \E i \in 1..(Len(str) - Len(sub) + 1) : SubSeq(str, i, i + Len(sub) - 1) = sub

Lowercase == "abcdefghijklmnopqrstuvwxyz"
Uppercase == "ABCDEFGHIJKLMNOPQRSTUVWXYZ"
UpperChar(c) ==
    IF \E i \in 1..Len(Lowercase) : Char(Lowercase, i) = c
    THEN Char(Uppercase, CHOOSE i \in 1..Len(Lowercase) : Char(Lowercase, i) = c)
    ELSE c
LowerChar(c) ==
    IF \E i \in 1..Len(Uppercase) : Char(Uppercase, i) = c
    THEN Char(Lowercase, CHOOSE i \in 1..Len(Uppercase) : Char(Uppercase, i) = c)
    ELSE c
\* str.lower()
RECURSIVE Lower(_)
Lower(str) == IF str = "" THEN "" ELSE LowerChar(Char(str, 1)) \o Lower(Rest(str))
\* str.upper()
RECURSIVE Upper(_)
Upper(str) == IF str = "" THEN "" ELSE UpperChar(Char(str, 1)) \o Upper(Rest(str))

\* QueryBuilder.__init__
QueryBuilder(db_type) == [db_type |-> Lower(db_type)]

\* str.replace(old, new): every occurrence of old, left to right
RECURSIVE Replace(_, _, _)
Replace(str, old, new) ==
    IF Len(str) < Len(old) THEN str
    ELSE IF SubSeq(str, 1, Len(old)) = old
         THEN new \o Replace(SubSeq(str, Len(old) + 1, Len(str)), old, new)
         ELSE Char(str, 1) \o Replace(Rest(str), old, new)

\* query.replace("SELECT", f"SELECT TOP {limit}") on one token: the keyword
\* becomes three tokens, any other token that contains SELECT is rewritten
ReplaceSelect(tok, limit) ==
    IF tok = "SELECT" THEN <<"SELECT", "TOP", ToString(limit)>>
    ELSE <<Replace(tok, "SELECT", "SELECT TOP " \o ToString(limit))>>

BigLimit == "18446744073709551615"

select(db_type, table_name, columns, where, order_by, limit, offset) ==
    LET column_clause == IF Len(columns) > 0
                         THEN Join([i \in 1..Len(columns) |-> <<columns[i]>>], ",")
                         ELSE <<"*">>
        base == <<"SELECT">> \o column_clause \o <<"FROM", table_name>>
        w == build_where_clause(db_type, where, 0)
        q1 == IF Len(where) > 0 THEN base \o <<"WHERE">> \o w.clause ELSE base
        params == IF Len(where) > 0 THEN w.params ELSE <<>>
        q2 == IF Len(order_by) > 0
              THEN q1 \o <<"ORDER BY">>
                      \o Join([i \in 1..Len(order_by) |-> OrderItem(order_by[i])], ",")
              ELSE q1
        inject == IF Len(order_by) = 0 THEN <<"ORDER BY", "(SELECT NULL)">> ELSE <<>>
        q3 == IF limit.given THEN
                  IF db_type = "mssql" THEN
                      IF ~offset.given
                      THEN Flatten([i \in 1..Len(q2) |-> ReplaceSelect(q2[i], limit.n)])
                      ELSE q2 \o inject
                              \o <<"OFFSET", ToString(offset.n), "ROWS", "FETCH NEXT",
                                   ToString(limit.n), "ROWS ONLY">>
                  ELSE q2 \o <<"LIMIT", ToString(limit.n)>>
                          \o (IF offset.given THEN <<"OFFSET", ToString(offset.n)>> ELSE <<>>)
              ELSE IF offset.given THEN
                  IF db_type = "mssql"
                  THEN q2 \o inject \o <<"OFFSET", ToString(offset.n), "ROWS">>
                  ELSE q2 \o <<"LIMIT", BigLimit, "OFFSET", ToString(offset.n)>>
              ELSE q2
    IN  Ok(q3, params)

insert(db_type, table_name, data) ==
    IF Len(data) = 0 THEN ValueError
    ELSE LET columns == [i \in 1..Len(data) |-> <<data[i].column>>]
             values == [i \in 1..Len(data) |-> data[i].value]
             placeholders == PlaceholderList(db_type, 0, Len(data))
         IN  Ok(<<"INSERT INTO", table_name, "(">> \o Join(columns, ",")
                    \o <<")", "VALUES", "(">> \o Join(placeholders, ",") \o <<")">>,
                values)

\* update that returns the WHERE parameters ahead of the SET parameters
update_where_params_first(db_type, table_name, data, where) ==
    IF Len(data) = 0 THEN ValueError
    ELSE IF Len(where) = 0 THEN ValueError
    ELSE LET set_clause == [i \in 1..Len(data) |->
                               <<data[i].column, "=", Placeholder(db_type, i)>>]
             params == [i \in 1..Len(data) |-> data[i].value]
             w == build_where_clause(db_type, where, Len(params))
         IN  Ok(<<"UPDATE", table_name, "SET">> \o Join(set_clause, ",")
                    \o <<"WHERE">> \o w.clause,
                w.params \o params)

update(db_type, table_name, data, where) ==
    IF Len(data) = 0 THEN ValueError
    ELSE IF Len(where) = 0 THEN ValueError
    ELSE LET set_clause == [i \in 1..Len(data) |->
                               <<data[i].column, "=", Placeholder(db_type, i)>>]
             params == [i \in 1..Len(data) |-> data[i].value]
             w == build_where_clause(db_type, where, Len(params))
         IN  Ok(<<"UPDATE", table_name, "SET">> \o Join(set_clause, ",")
                    \o <<"WHERE">> \o w.clause,
                params \o w.params)

\* delete without the check of its conditions
delete_unguarded(db_type, table_name, where) ==
    LET w == build_where_clause(db_type, where, 0)
    IN  Ok(<<"DELETE FROM", table_name, "WHERE">> \o w.clause, w.params)

delete(db_type, table_name, where) ==
    IF Len(where) = 0 THEN ValueError
    ELSE LET w == build_where_clause(db_type, where, 0)
         IN  Ok(<<"DELETE FROM", table_name, "WHERE">> \o w.clause, w.params)

\* the method that request r names, on a QueryBuilder whose db_type is
\* r.db_type
Compile(r) ==
    CASE r.op = "select" -> select(r.db_type, r.table, r.columns, r.where, r.order_by,
                                   r.limit, r.offset)
      [] r.op = "insert" -> insert(r.db_type, r.table, r.data)
      [] r.op = "update" -> update(r.db_type, r.table, r.data, r.where)
      [] r.op = "delete" -> delete(r.db_type, r.table, r.where)

\* a call that leaves the builder set to the dialect of its last insert
Serve_relabelling(b, r) ==
    [builder |-> IF r.op = "insert" THEN QueryBuilder("postgres") ELSE b,
     result |-> Compile([r EXCEPT !.db_type = b.db_type])]

\* one call of a method on the QueryBuilder b: what it returns and the
\* builder it leaves; the methods read self.db_type and assign no attribute
Serve(b, r) ==
    [builder |-> b, result |-> Compile([r EXCEPT !.db_type = b.db_type])]

(***************************************************************************)
(* Builder requests.                                                       *)
(***************************************************************************)
OperandPool == <<"a", "b", "c", "d", "e">>
OperandLists == {SubSeq(OperandPool, 1, n) : n \in 0..MaxOperand}

CompareInputs == {">", "like", "not_like"}

CondValues ==
    {Scalar("v"), PyNone}
    \cup {OpDict(o, l) : o \in ListOps, l \in OperandLists}
    \cup {OpDict(o, <<"w">>) : o \in CompareInputs}
    \cup {OpDict("is_null", <<b>>) : b \in {"True", "False"}}
    \cup {OpDict("regex", <<"w">>)}

ColumnPool == <<"x", "y", "z", "u">>

\* where mappings: distinct keys, in insertion order
RECURSIVE WheresOfLen(_)
WheresOfLen(n) ==
    IF n = 0 THEN {<<>>}
    ELSE {Append(w, Entry(ColumnPool[n], v)) : w \in WheresOfLen(n - 1), v \in CondValues}

Wheres == UNION {WheresOfLen(n) : n \in 0..MaxConds}

Datas == {<<>>, <<Entry("p", Scalar("1"))>>,
          <<Entry("p", Scalar("1")), Entry("q", PyNone)>>}

NoReq == [op |-> "none"]
NoRes == [status |-> "none", query |-> <<>>, params |-> <<>>]
NoHist == [last_txn_call |-> "none", snapshot |-> <<>>]

Request(o, d, dt, w, c, ob, l, of) ==
    [op |-> o, db_type |-> d, table |-> "t", data |-> dt, where |-> w,
     columns |-> c, order_by |-> ob, limit |-> l, offset |-> of]

ColumnLists == {<<>>, <<"x", "y">>, <<"SELECTED">>}
OrderBys == {<<>>, <<[name |-> "x", desc |-> TRUE], [name |-> "y", desc |-> FALSE]>>}
Limits == {NoInt, SomeInt(10), SomeInt(0)}
Offsets == {NoInt, SomeInt(20), SomeInt(0)}

\* the where mappings of the select requests that order or page: those of
\* at most one entry, and one of two entries
PagedWheres ==
    WheresOfLen(0) \cup WheresOfLen(1)
    \cup {<<Entry("x", OpDict("between", <<"a", "b">>)), Entry("y", OpDict("in", <<"a">>))>>}

(***************************************************************************)
(* The SQLite engine behind sqlite3.Cursor.execute, for the statements the *)
(* connector, the executor and the schema manager send.  A database maps   *)
(* table names to [cols, rows]; a table with no column does not exist.     *)
(* Values are strings; Null is SQL NULL / Python None.                     *)
(***************************************************************************)
Null == "<NULL>"
TableNames == {"t", "temp_t", "sqlitedata"}
NoTable == [cols |-> <<>>, rows |-> <<>>]
EmptyDb == [n \in TableNames |-> NoTable]

HasTable(db, n) == n \in TableNames /\ db[n].cols # <<>>
ColNames(tbl) == [i \in DOMAIN tbl.cols |-> tbl.cols[i].name]
ColNameSet(tbl) == Range(ColNames(tbl))
ColOf(tbl, c) == tbl.cols[CHOOSE i \in DOMAIN tbl.cols : tbl.cols[i].name = c]

Quote(str) == "'" \o str \o "'"

\* Values, in Python and in the engine: a string of digits is an integer,
\* any other string is text; text that reads as an integer is written quoted
Digits == {"0", "1", "2", "3", "4", "5", "6", "7", "8", "9"}
IsInt(v) == Len(v) > 0 /\ \A i \in 1..Len(v) : Char(v, i) \in Digits
IsQuotedInt(v) ==
    /\ Len(v) > 2 /\ Char(v, 1) = "'" /\ Char(v, Len(v)) = "'"
    /\ IsInt(SubSeq(v, 2, Len(v) - 1))
Unquote(v) == SubSeq(v, 2, Len(v) - 1)
PlainLiterals == {"None", "0", "x"}
\* the value a DEFAULT expression gives a new row
DefaultValue(dflt) ==
    IF dflt = Null THEN Null
    ELSE IF \E l \in PlainLiterals : dflt = Quote(l) /\ ~IsInt(l)
         THEN CHOOSE l \in PlainLiterals : dflt = Quote(l)
         ELSE dflt
\* a DEFAULT expression the parser accepts: a literal or a quoted literal
ValidDefault(dflt) == dflt \in PlainLiterals \cup {Quote(l) : l \in PlainLiterals}

EngineOk(db, rows, rowcount) ==
    [ok |-> TRUE, stage |-> "done", db |-> db, rows |-> rows, rowcount |-> rowcount]
\* stage "prepare": the statement was rejected before it ran (syntax, unknown
\* table or column, wrong number of bindings); stage "run": it failed running
EngineError(db, stage) ==
    [ok |-> FALSE, stage |-> stage, db |-> db, rows |-> <<>>, rowcount |-> 0]

\* the chunks of toks between separators sep
RECURSIVE SplitFrom(_, _, _, _)
SplitFrom(toks, sep, i, cur) ==
    IF i > Len(toks) THEN <<cur>>
    ELSE IF toks[i] = sep THEN <<cur>> \o SplitFrom(toks, sep, i + 1, <<>>)
    ELSE SplitFrom(toks, sep, i + 1, Append(cur, toks[i]))
Split(toks, sep) == IF toks = <<>> THEN <<>> ELSE SplitFrom(toks, sep, 1, <<>>)

IndexOf(toks, tok) ==
    IF tok \in Range(toks) THEN CHOOSE i \in DOMAIN toks :
                                   toks[i] = tok /\ \A j \in 1..(i - 1) : toks[j] # tok
    ELSE 0

HasDuplicates(seq) == \E i, j \in DOMAIN seq : i < j /\ seq[i] = seq[j]

\* str LIKE pattern: % stands for any characters, _ for exactly one, and
\* letters match without regard to case
RECURSIVE Like(_, _)
Like(str, pattern) ==
    IF pattern = "" THEN str = ""
    ELSE IF Char(pattern, 1) = "%"
         THEN Like(str, Rest(pattern)) \/ (str # "" /\ Like(Rest(str), pattern))
         ELSE /\ str # ""
              /\ Char(pattern, 1) = "_" \/ Upper(Char(pattern, 1)) = Upper(Char(str, 1))
              /\ Like(Rest(str), Rest(pattern))

\* the number an integer value stands for
RECURSIVE Num(_)
Num(v) ==
    IF v = "" THEN 0
    ELSE Num(SubSeq(v, 1, Len(v) - 1)) * 10
         + (CHOOSE d \in 0..9 : ToString(d) = Char(v, Len(v)))

\* the affinity of a column, from its declared type
AffinityOf(type) ==
    IF Contains(Upper(type), "INT") THEN "INTEGER"
    ELSE IF \E sub \in {"CHAR", "CLOB", "TEXT"} : Contains(Upper(type), sub) THEN "TEXT"
    ELSE IF type = "" \/ Contains(Upper(type), "BLOB") THEN "NONE"
    ELSE "NUMERIC"

\* the value a column of that affinity holds, or is compared with, for v
Convert(affinity, v) ==
    IF v = Null THEN Null
    ELSE IF affinity \in {"INTEGER", "NUMERIC"} /\ IsQuotedInt(v) THEN Unquote(v)
    ELSE IF affinity = "TEXT" /\ IsInt(v) THEN Quote(v)
    ELSE v

\* the order of values: integers before text, text by character code
Ascii == "'0123456789ABCDEFGHIJKLMNOPQRSTUVWXYZ_abcdefghijklmnopqrstuvwxyz"
Code(c) == IF Contains(Ascii, c) THEN CHOOSE i \in 1..Len(Ascii) : Char(Ascii, i) = c ELSE 0
RECURSIVE TextLE(_, _)
TextLE(a, b) ==
    IF a = "" THEN TRUE
    ELSE IF b = "" THEN FALSE
    ELSE IF Char(a, 1) = Char(b, 1) THEN TextLE(Rest(a), Rest(b))
    ELSE Code(Char(a, 1)) < Code(Char(b, 1))
TextOf(v) == IF IsQuotedInt(v) THEN Unquote(v) ELSE v
ValueLE(a, b) ==
    IF IsInt(a) THEN (IsInt(b) => Num(a) <= Num(b))
    ELSE ~IsInt(b) /\ TextLE(TextOf(a), TextOf(b))

\* a column of a table as PRAGMA table_info reports it, with its affinity
\* and whether it is the table's rowid (an INTEGER PRIMARY KEY column is)
Column(name, type, notnull, pk, dflt_value) ==
    [name |-> name, type |-> type, notnull |-> notnull, pk |-> pk,
     dflt_value |-> dflt_value, affinity |-> AffinityOf(type),
     rowid |-> pk /\ Upper(type) = "INTEGER"]

\* a column definition of CREATE TABLE
ParseColumnDef(chunk) ==
    Column(chunk[1], chunk[2], "NOT NULL" \in Range(chunk), "PRIMARY KEY" \in Range(chunk),
           IF IndexOf(chunk, "DEFAULT") > 0 THEN chunk[IndexOf(chunk, "DEFAULT") + 1]
           ELSE Null)

HasRowId(tbl) == \E i \in DOMAIN tbl.cols : tbl.cols[i].rowid
RowIdColumn(tbl) == tbl.cols[CHOOSE i \in DOMAIN tbl.cols : tbl.cols[i].rowid].name

\* the rowid an INTEGER PRIMARY KEY column gets when none is given
NextRowId(tbl, c) ==
    LET ids == {Num(tbl.rows[i][c]) : i \in DOMAIN tbl.rows}
        top == IF ids = {} THEN 0 ELSE CHOOSE m \in ids : \A n \in ids : n <= m
    IN  ToString(top + 1)

\* rows are kept and read back in rowid order
RECURSIVE InsertSorted(_, _, _)
InsertSorted(rows, row, c) ==
    IF rows = <<>> THEN <<row>>
    ELSE IF Num(row[c]) < Num(Head(rows)[c]) THEN <<row>> \o rows
    ELSE <<Head(rows)>> \o InsertSorted(Tail(rows), row, c)
RECURSIVE SortRows(_, _)
SortRows(rows, c) ==
    IF rows = <<>> THEN <<>>
    ELSE InsertSorted(SortRows(SubSeq(rows, 1, Len(rows) - 1), c), rows[Len(rows)], c)
Stored(tbl, rows) == IF HasRowId(tbl) THEN SortRows(rows, RowIdColumn(tbl)) ELSE rows

\* the row stored for the given column values (a function on a subset of the
\* table's columns): defaults and the rowid fill the columns not given
FillRow(tbl, given) ==
    [c \in ColNameSet(tbl) |->
        LET col == ColOf(tbl, c)
            v == Convert(col.affinity,
                         IF c \in DOMAIN given THEN given[c]
                         ELSE DefaultValue(col.dflt_value))
        IN  IF v = Null /\ col.rowid THEN NextRowId(tbl, c) ELSE v]

\* a rowid that is not an integer
Mismatch(tbl, row) ==
    \E c \in ColNameSet(tbl) : ColOf(tbl, c).rowid /\ ~IsInt(row[c])

ViolatesNotNull(tbl, row) ==
    \E c \in ColNameSet(tbl) : ColOf(tbl, c).notnull /\ row[c] = Null

ViolatesUnique(tbl, row) ==
    \E c \in ColNameSet(tbl) :
        /\ ColOf(tbl, c).pk /\ row[c] # Null
        /\ \E i \in DOMAIN tbl.rows : tbl.rows[i][c] = row[c]

\* rows appended one by one; the statement fails as a whole on a constraint
RECURSIVE InsertRows(_, _, _)
InsertRows(tbl, givens, i) ==
    IF i > Len(givens) THEN [ok |-> TRUE, tbl |-> tbl]
    ELSE With(FillRow(tbl, givens[i]), LAMBDA row :
             IF ViolatesNotNull(tbl, row) \/ ViolatesUnique(tbl, row) \/ Mismatch(tbl, row)
             THEN [ok |-> FALSE, tbl |-> tbl]
             ELSE InsertRows([tbl EXCEPT !.rows = Stored(tbl, Append(@, row))],
                             givens, i + 1))

ParamValue(p) == IF p.kind = "none" THEN Null ELSE p.operand[1]
Bindable(p) == p.kind \in {"scalar", "none"}

IsMark(tok) == tok = "?"
Marks(toks) == SelectSeq(toks, IsMark)

\* what sqlite3 rejects when it binds the parameters of a prepared statement
BadBinding(query, params) ==
    \/ Len(Marks(query)) # Len(params)
    \/ \E i \in DOMAIN params : ~Bindable(params[i])

\* CREATE TABLE name ( defs )
RunCreate(db, query) ==
    LET name == query[2]
        chunks == Split(SubSeq(query, 4, Len(query) - 1), ",")
        cols == [i \in DOMAIN chunks |-> ParseColumnDef(chunks[i])]
    IN  IF \/ name \notin TableNames
           \/ chunks = <<>>
           \/ \E i \in DOMAIN chunks : Len(chunks[i]) < 2
           \/ \E i \in DOMAIN cols : cols[i].dflt_value # Null /\ ~ValidDefault(cols[i].dflt_value)
           \/ HasTable(db, name)
           \/ HasDuplicates([i \in DOMAIN cols |-> cols[i].name])
           \/ \E i, j \in DOMAIN cols : i < j /\ cols[i].pk /\ cols[j].pk
        THEN EngineError(db, "prepare")
        ELSE EngineOk([db EXCEPT ![name] = [cols |-> cols, rows |-> <<>>]], <<>>, 0)

\* DROP TABLE IF EXISTS name
RunDrop(db, query) ==
    LET name == query[2]
    IN  IF name \in TableNames THEN EngineOk([db EXCEPT ![name] = NoTable], <<>>, 0)
        ELSE EngineOk(db, <<>>, 0)

\* ALTER TABLE old RENAME TO new
RunRename(db, query) ==
    LET old == query[2]
        new == query[4]
    IN  IF query[3] # "RENAME TO" \/ ~HasTable(db, old) \/ new \notin TableNames
           \/ HasTable(db, new)
        THEN EngineError(db, "prepare")
        ELSE EngineOk([db EXCEPT ![new] = db[old], ![old] = NoTable], <<>>, 0)

\* INSERT INTO dst ( cols ) SELECT cols FROM src
RunCopy(db, query) ==
    LET dst == query[2]
        close == IndexOf(query, ")")
        sel == IndexOf(query, "SELECT")
        from == IndexOf(query, "FROM")
        dcols == Split(SubSeq(query, 4, close - 1), ",")
        scols == Split(SubSeq(query, sel + 1, from - 1), ",")
        src == query[from + 1]
    IN  IF \/ dcols = <<>> \/ scols = <<>>
           \/ \E i \in DOMAIN dcols : Len(dcols[i]) # 1
           \/ \E i \in DOMAIN scols : Len(scols[i]) # 1
           \/ Len(dcols) # Len(scols)
           \/ ~HasTable(db, dst) \/ ~HasTable(db, src)
        THEN EngineError(db, "prepare")
        ELSE IF \/ \E i \in DOMAIN dcols : dcols[i][1] \notin ColNameSet(db[dst])
                \/ \E i \in DOMAIN scols : scols[i][1] \notin ColNameSet(db[src])
                \/ HasDuplicates(dcols)
        THEN EngineError(db, "prepare")
        ELSE LET givens == [r \in DOMAIN db[src].rows |->
                              [c \in {dcols[i][1] : i \in DOMAIN dcols} |->
                                  db[src].rows[r][scols[CHOOSE i \in DOMAIN dcols :
                                                          dcols[i][1] = c][1]]]]
                 ins == InsertRows(db[dst], givens, 1)
             IN  IF ins.ok THEN EngineOk([db EXCEPT ![dst] = ins.tbl], <<>>, Len(givens))
                 ELSE EngineError(db, "run")

\* INSERT INTO name ( cols ) VALUES ( ?, ... )
RunInsert(db, query, params) ==
    LET name == query[2]
        close == IndexOf(query, ")")
        cols == Split(SubSeq(query, 4, close - 1), ",")
        marks == Marks(SubSeq(query, close + 1, Len(query)))
    IN  IF \/ ~HasTable(db, name) \/ cols = <<>>
           \/ \E i \in DOMAIN cols : Len(cols[i]) # 1
           \/ Len(marks) # Len(cols)
        THEN EngineError(db, "prepare")
        ELSE IF \E i \in DOMAIN cols : cols[i][1] \notin ColNameSet(db[name])
        THEN EngineError(db, "prepare")
        ELSE IF BadBinding(query, params) THEN EngineError(db, "run")
        ELSE LET given == [c \in {cols[i][1] : i \in DOMAIN cols} |->
                             ParamValue(params[CHOOSE i \in DOMAIN cols : cols[i][1] = c])]
                 ins == InsertRows(db[name], <<given>>, 1)
             IN  IF ins.ok THEN EngineOk([db EXCEPT ![name] = ins.tbl], <<>>, 1)
                 ELSE EngineError(db, "run")

\* the shape of one condition of a WHERE clause
CondShape(chunk) ==
    CASE chunk = <<"1", "=", "0">> -> "false"
      [] chunk = <<"1", "=", "1">> -> "true"
      [] Len(chunk) = 2 /\ chunk[2] = "IS NULL" -> "is_null"
      [] Len(chunk) = 2 /\ chunk[2] = "IS NOT NULL" -> "is_not_null"
      [] Len(chunk) = 3 /\ chunk[2] = "=" /\ chunk[3] = "?" -> "eq"
      [] Len(chunk) = 5 /\ SubSeq(chunk, 2, 5) = <<"BETWEEN", "?", "AND", "?">> -> "between"
      [] Len(chunk) >= 5 /\ chunk[2] = "IN" /\ chunk[3] = "(" /\ chunk[Len(chunk)] = ")" -> "in"
      [] Len(chunk) >= 5 /\ chunk[2] = "NOT IN" /\ chunk[3] = "(" /\ chunk[Len(chunk)] = ")"
            -> "not_in"
      [] OTHER -> "unsupported"

CondColumnKnown(tbl, chunk) ==
    CondShape(chunk) \in {"false", "true"} \/ chunk[1] \in ColNameSet(tbl)

\* whether row satisfies the condition, bound the values bound to its
\* markers; they are compared as values of the column's affinity
CondHolds(tbl, row, chunk, bound) ==
    LET v == row[chunk[1]]
        vals == [k \in DOMAIN bound |->
                    Convert(ColOf(tbl, chunk[1]).affinity, bound[k])]
    IN  CASE CondShape(chunk) = "false" -> FALSE
          [] CondShape(chunk) = "true" -> TRUE
          [] CondShape(chunk) = "is_null" -> v = Null
          [] CondShape(chunk) = "is_not_null" -> v # Null
          [] CondShape(chunk) = "eq" -> v # Null /\ v = vals[1]
          [] CondShape(chunk) = "in" -> v # Null /\ v \in Range(vals)
          [] CondShape(chunk) = "not_in" ->
                v # Null /\ Null \notin Range(vals) /\ v \notin Range(vals)
          [] CondShape(chunk) = "between" ->
                /\ v # Null /\ Null \notin Range(vals)
                /\ ValueLE(vals[1], v) /\ ValueLE(v, vals[2])
          [] OTHER -> FALSE

\* the conditions joined by AND, markers bound left to right from vals[k] on
RECURSIVE RowMatches(_, _, _, _, _, _)
RowMatches(tbl, row, chunks, i, vals, k) ==
    IF i > Len(chunks) THEN TRUE
    ELSE LET n == Len(Marks(chunks[i]))
         IN  /\ CondHolds(tbl, row, chunks[i], SubSeq(vals, k, k + n - 1))
             /\ RowMatches(tbl, row, chunks, i + 1, vals, k + n)

\* the conditions of a WHERE clause: the chunks between the ANDs that join
\* them, the AND of a BETWEEN being part of its condition
RECURSIVE SplitConds(_, _, _)
SplitConds(toks, i, cur) ==
    IF i > Len(toks) THEN <<cur>>
    ELSE IF toks[i] = "AND" /\ ~(i > 2 /\ toks[i - 2] = "BETWEEN")
    THEN <<cur>> \o SplitConds(toks, i + 1, <<>>)
    ELSE SplitConds(toks, i + 1, Append(cur, toks[i]))

\* the tokens of a statement ahead of its LIMIT clause
BeforeLimit(query) ==
    IF IndexOf(query, "LIMIT") = 0 THEN query
    ELSE SubSeq(query, 1, IndexOf(query, "LIMIT") - 1)

WhereChunks(query) ==
    IF IndexOf(query, "WHERE") = 0 THEN <<>>
    ELSE SplitConds(SubSeq(BeforeLimit(query), IndexOf(query, "WHERE") + 1,
                           Len(BeforeLimit(query))), 1, <<>>)

\* SQLite's integers are 64-bit signed; a larger literal is a REAL, which
\* LIMIT and OFFSET reject (datatype mismatch)
LargestInteger == "9223372036854775807"
Representable(n) ==
    /\ IsInt(n)
    /\ \/ Len(n) < Len(LargestInteger)
       \/ Len(n) = Len(LargestInteger) /\ TextLE(n, LargestInteger)

\* LIMIT n [OFFSET o] applied to the rows found; no table of the model holds
\* as many rows as a limit of more than three digits
Page(query, found) ==
    LET l == IndexOf(query, "LIMIT")
        o == IF IndexOf(query, "OFFSET") = 0 THEN 0
             ELSE Num(query[IndexOf(query, "OFFSET") + 1])
        n == IF Len(query[l + 1]) > 3 THEN Len(found) ELSE Num(query[l + 1])
        last == IF o + n < Len(found) THEN o + n ELSE Len(found)
    IN  IF l = 0 THEN found ELSE SubSeq(found, o + 1, last)
BadLimit(query) ==
    LET l == IndexOf(query, "LIMIT")
    IN  /\ l > 0
        /\ \/ ~Representable(query[l + 1])
           \/ Len(query) > l + 1 /\ ~(Len(query) = l + 3 /\ query[l + 2] = "OFFSET"
                                       /\ Representable(query[l + 3]))

\* what the engine rejects when it prepares a statement with a WHERE clause
BadWhere(tbl, query) ==
    \E i \in DOMAIN WhereChunks(query) :
        \/ CondShape(WhereChunks(query)[i]) = "unsupported"
        \/ ~CondColumnKnown(tbl, WhereChunks(query)[i])

ParamValues(params) == [i \in DOMAIN params |-> ParamValue(params[i])]

\* SELECT cols FROM name [WHERE conds] [LIMIT n [OFFSET o]]
RunSelect(db, query, params) ==
    LET from == IndexOf(query, "FROM")
        name == query[from + 1]
        cols == Split(SubSeq(query, 2, from - 1), ",")
        upto == IF IndexOf(query, "WHERE") = 0 THEN Len(BeforeLimit(query))
                ELSE IndexOf(query, "WHERE") - 1
    IN  IF from = 0 \/ ~HasTable(db, name) \/ upto # from + 1
        THEN EngineError(db, "prepare")
        ELSE IF \/ BadWhere(db[name], query)
                \/ \E i \in DOMAIN cols : Len(cols[i]) # 1
                \/ \E i \in DOMAIN cols : cols[i][1] \notin ColNameSet(db[name]) \cup {"*"}
        THEN EngineError(db, "prepare")
        ELSE IF BadBinding(query, params) \/ BadLimit(query) THEN EngineError(db, "run")
        ELSE LET hit(row) == RowMatches(db[name], row, WhereChunks(query), 1,
                                        ParamValues(params), 1)
                 out == IF cols = <<<<"*">>>> THEN ColNameSet(db[name])
                        ELSE {cols[i][1] : i \in DOMAIN cols}
                 found == Page(query, SelectSeq(db[name].rows, hit))
             IN  EngineOk(db, [i \in DOMAIN found |-> [c \in out |-> found[i][c]]], 0)

\* DELETE FROM name WHERE conds
RunDelete(db, query, params) ==
    LET name == query[2]
    IN  IF ~HasTable(db, name) THEN EngineError(db, "prepare")
        ELSE IF BadWhere(db[name], query) THEN EngineError(db, "prepare")
        ELSE IF BadBinding(query, params) THEN EngineError(db, "run")
        ELSE LET hit(row) == RowMatches(db[name], row, WhereChunks(query), 1,
                                        ParamValues(params), 1)
                 keep(row) == ~hit(row)
                 left == SelectSeq(db[name].rows, keep)
             IN  EngineOk([db EXCEPT ![name].rows = left], <<>>,
                          Len(db[name].rows) - Len(left))

\* UPDATE name SET c = ?, ... WHERE conds
RunUpdate(db, query, params) ==
    LET name == query[2]
        sets == Split(SubSeq(query, 4, IndexOf(query, "WHERE") - 1), ",")
        vals == ParamValues(params)
    IN  IF ~HasTable(db, name) \/ query[3] # "SET" \/ IndexOf(query, "WHERE") = 0
        THEN EngineError(db, "prepare")
        ELSE IF \/ BadWhere(db[name], query)
                \/ \E i \in DOMAIN sets :
                      \/ Len(sets[i]) # 3
                      \/ sets[i][1] \notin ColNameSet(db[name])
        THEN EngineError(db, "prepare")
        ELSE IF BadBinding(query, params) THEN EngineError(db, "run")
        ELSE LET hit(row) == RowMatches(db[name], row, WhereChunks(query), 1, vals,
                                        Len(sets) + 1)
                 new(row) == [c \in DOMAIN row |->
                                IF \E i \in DOMAIN sets : sets[i][1] = c
                                THEN Convert(ColOf(db[name], c).affinity,
                                             vals[CHOOSE i \in DOMAIN sets :
                                                    sets[i][1] = c /\ \A j \in DOMAIN sets :
                                                        sets[j][1] = c => j <= i])
                                ELSE row[c]]
                 keyed == {k \in ColNameSet(db[name]) : ColOf(db[name], k).pk}
             IN  With([i \in DOMAIN db[name].rows |->
                          IF hit(db[name].rows[i]) THEN new(db[name].rows[i])
                          ELSE db[name].rows[i]], LAMBDA rows :
                 IF \/ \E i \in DOMAIN rows : ViolatesNotNull(db[name], rows[i])
                    \/ \E i \in DOMAIN rows : Mismatch(db[name], rows[i])
                    \/ \E i, j \in DOMAIN rows :
                          /\ i < j /\ \E c \in keyed :
                                        rows[i][c] # Null /\ rows[i][c] = rows[j][c]
                 THEN EngineError(db, "run")
                 ELSE EngineOk([db EXCEPT ![name].rows = Stored(db[name], rows)], <<>>,
                               Len(SelectSeq(db[name].rows, hit))))

\* SELECT name FROM sqlite_master WHERE type = 'table' AND name NOT LIKE pattern:
\* the names of the tables that the pattern does not match
TableOrder == <<"t", "temp_t", "sqlitedata">>
RunMaster(db, query) ==
    EngineOk(db, SelectSeq(TableOrder, LAMBDA n :
                    HasTable(db, n) /\ ~Like(n, Unquote(query[Len(query)]))), 0)

\* PRAGMA table_info ( name ): one row per column, none for a missing table
RunPragma(db, query) ==
    IF HasTable(db, query[4]) THEN EngineOk(db, db[query[4]].cols, 0)
    ELSE EngineOk(db, <<>>, 0)

\* one statement against the database db
Run(db, query, params) ==
    CASE query[1] = "CREATE TABLE" -> RunCreate(db, query)
      [] query[1] = "DROP TABLE IF EXISTS" -> RunDrop(db, query)
      [] query[1] = "ALTER TABLE" -> RunRename(db, query)
      [] query[1] = "INSERT INTO" /\ "VALUES" \in Range(query) -> RunInsert(db, query, params)
      [] query[1] = "INSERT INTO" /\ "VALUES" \notin Range(query) -> RunCopy(db, query)
      [] query[1] = "UPDATE" -> RunUpdate(db, query, params)
      [] query[1] = "DELETE FROM" -> RunDelete(db, query, params)
      [] query[1] = "SELECT" /\ "sqlite_master" \notin Range(query) ->
              RunSelect(db, query, params)
      [] query[1] = "SELECT" /\ "sqlite_master" \in Range(query) -> RunMaster(db, query)
      [] query[1] = "PRAGMA" -> RunPragma(db, query)
      [] OTHER -> EngineError(db, "prepare")

(***************************************************************************)
(* sqlite3.Connection with the module's default (legacy) transaction       *)
(* control.  A connector state K holds the connector's own fields          *)
(* (connection, in_transaction) and the state of the database behind it:   *)
(* disk is the committed database, view what the connection sees, txn      *)
(* whether the engine has a transaction open.  calls lists the statements  *)
(* handed to execute_query by the handler that is running and ends the     *)
(* commit() and rollback() calls it made on the connection; fuse is the    *)
(* environment's fault schedule: the fuse-th engine call from now fails    *)
(* (0: none does).                                                         *)
(***************************************************************************)
DML == {"INSERT INTO", "UPDATE", "DELETE FROM"}

Burn(K) == [K EXCEPT !.fuse = IF @ = 0 THEN 0 ELSE @ - 1]
Blows(K) == K.fuse = 1

\* Connection.commit() and Connection.rollback(); ends is the log of the
\* two, in the order they were called
ConnCommit(K) == [K EXCEPT !.txn = FALSE, !.disk = K.view, !.ends = Append(@, "commit")]
ConnRollback(K) == [K EXCEPT !.txn = FALSE, !.view = K.disk, !.ends = Append(@, "rollback")]

\* Cursor.execute(query, params): a transaction is opened implicitly before
\* a DML statement, once the statement is prepared; any other statement runs
\* in the open transaction, or on its own (committed at once) when none is
CursorExecute(K, query, params) ==
    IF Blows(K) THEN [ok |-> FALSE, K |-> Burn(K), rows |-> <<>>, rowcount |-> 0]
    ELSE IF query[1] = "BEGIN TRANSACTION"
    THEN IF K.txn THEN [ok |-> FALSE, K |-> Burn(K), rows |-> <<>>, rowcount |-> 0]
         ELSE [ok |-> TRUE, K |-> [Burn(K) EXCEPT !.txn = TRUE], rows |-> <<>>, rowcount |-> 0]
    ELSE With(Run(K.view, query, params), LAMBDA r :
           LET K1 == IF query[1] \in DML /\ r.stage # "prepare"
                     THEN [Burn(K) EXCEPT !.txn = TRUE] ELSE Burn(K)
           IN  IF ~r.ok THEN [ok |-> FALSE, K |-> K1, rows |-> <<>>, rowcount |-> 0]
               ELSE [ok |-> TRUE,
                     K |-> [K1 EXCEPT !.view = r.db,
                                      !.disk = IF K1.txn THEN @ ELSE r.db],
                     rows |-> r.rows, rowcount |-> r.rowcount])

(***************************************************************************)
(* SQLiteConnector.  Every method returns an outcome: the exception raised *)
(* ("" when it returns), the class of the original_error it wraps, the     *)
(* connector state it leaves and the value returned.                       *)
(***************************************************************************)
Return(K, value) == [raised |-> "", original |-> "", K |-> K, value |-> value]
Raise(K, kind, original) == [raised |-> kind, original |-> original, K |-> K, value |-> <<>>]

NewConnector(db) ==
    [connection |-> "none", in_transaction |-> FALSE, txn |-> FALSE,
     disk |-> db, view |-> db, calls |-> <<>>, ends |-> <<>>, fuse |-> 0]

connect(K) == [K EXCEPT !.connection = "open"]
ensure_connection(K) == IF K.connection = "none" THEN connect(K) ELSE K

\* closing the connection discards the transaction the engine has open
close(K) ==
    IF K.connection = "open"
    THEN Return([K EXCEPT !.connection = "none", !.txn = FALSE, !.view = K.disk], <<>>)
    ELSE Return(K, <<>>)

execute_query(K, query, params) ==
    With(CursorExecute([ensure_connection(K) EXCEPT !.calls = Append(@, query[1])],
                       query, params), LAMBDA c :
        IF c.ok
        THEN IF query[1] \in {"SELECT", "PRAGMA"}
             THEN Return(c.K, [results |-> c.rows, affected_rows |-> 0])
             ELSE Return(IF ~K.in_transaction THEN ConnCommit(c.K) ELSE c.K,
                         [results |-> <<>>, affected_rows |-> c.rowcount])
        ELSE Raise(IF ~K.in_transaction THEN ConnRollback(c.K) ELSE c.K,
                   "QueryError", "sqlite3.Error"))

get_table_schema(K, table_name) ==
    With(execute_query(K, <<"PRAGMA", "table_info", "(", table_name, ")">>, <<>>),
         LAMBDA r :
        IF r.raised # "" THEN r
        ELSE Return(r.K, [i \in DOMAIN r.value.results |->
                            [name |-> r.value.results[i].name,
                             type |-> r.value.results[i].type,
                             nullable |-> ~r.value.results[i].notnull,
                             primary_key |-> r.value.results[i].pk,
                             default_value |-> r.value.results[i].dflt_value]]))

list_tables(K) ==
    With(execute_query(K, <<"SELECT", "name", "FROM", "sqlite_master", "WHERE",
                            "type", "=", "'table'", "AND", "name", "NOT LIKE",
                            "'sqlite_%'">>, <<>>),
         LAMBDA r : IF r.raised # "" THEN r ELSE Return(r.K, r.value.results))

\* Python values of a column's 'default' key: absent, None, an int, a str
NoDefault == [has |-> FALSE, kind |-> "", v |-> ""]
DefaultNone == [has |-> TRUE, kind |-> "none", v |-> "None"]
DefaultInt(v) == [has |-> TRUE, kind |-> "int", v |-> v]
DefaultStr(v) == [has |-> TRUE, kind |-> "str", v |-> v]

\* one entry of column_defs
ColumnDef(column) ==
    <<column.name, column.type>>
    \o (IF column.primary_key THEN <<"PRIMARY KEY">> ELSE <<>>)
    \o (IF ~column.nullable THEN <<"NOT NULL">> ELSE <<>>)
    \o (IF column.default.has
        THEN <<"DEFAULT", IF column.default.kind = "str" THEN Quote(column.default.v)
                          ELSE column.default.v>>
        ELSE <<>>)

create_table(K, table_name, columns) ==
    IF columns = <<>> THEN Raise(K, "QueryError", "")
    ELSE execute_query(K, <<"CREATE TABLE", table_name, "(">>
                            \o Join([i \in DOMAIN columns |-> ColumnDef(columns[i])], ",")
                            \o <<")">>, <<>>)

drop_table(K, table_name) ==
    execute_query(K, <<"DROP TABLE IF EXISTS", table_name>>, <<>>)

\* begin_transaction without the check of in_transaction
begin_transaction_unguarded(K) ==
    With(execute_query(ensure_connection(K), <<"BEGIN TRANSACTION">>, <<>>), LAMBDA r :
        IF r.raised # "" THEN r
        ELSE Return([r.K EXCEPT !.in_transaction = TRUE], <<>>))

begin_transaction(K) ==
    IF K.in_transaction THEN Raise(K, "QueryError", "")
    ELSE With(execute_query(ensure_connection(K), <<"BEGIN TRANSACTION">>, <<>>),
              LAMBDA r :
             IF r.raised # "" THEN r
             ELSE Return([r.K EXCEPT !.in_transaction = TRUE], <<>>))

commit_transaction(K) ==
    IF ~K.in_transaction THEN Raise(K, "QueryError", "")
    ELSE IF Blows(ensure_connection(K))
         THEN Raise(Burn(ensure_connection(K)), "QueryError", "sqlite3.Error")
         ELSE Return([ConnCommit(Burn(ensure_connection(K))) EXCEPT !.in_transaction = FALSE],
                     <<>>)

\* rollback_transaction that clears the flag and leaves the connection alone
rollback_transaction_flag_only(K) ==
    IF ~K.in_transaction THEN Raise(K, "QueryError", "")
    ELSE Return([ensure_connection(K) EXCEPT !.in_transaction = FALSE], <<>>)

rollback_transaction(K) ==
    IF ~K.in_transaction THEN Raise(K, "QueryError", "")
    ELSE Return([ConnRollback(ensure_connection(K)) EXCEPT !.in_transaction = FALSE], <<>>)

(***************************************************************************)
(* QueryExecutor over the SQLite connector.                                *)
(***************************************************************************)
\* the except clause of every executor method
WrapQueryError(r) ==
    IF r.raised # "" THEN Raise(r.K, "QueryError", r.raised) ELSE r

Build(K, built) ==
    With(built, LAMBDA b :
        IF b.status = "ValueError" THEN Raise(K, "QueryError", "ValueError")
        ELSE With(execute_query(K, b.query, b.params), LAMBDA r : WrapQueryError(r)))

executor_select(K, table_name, columns, where, order_by, limit, offset) ==
    With(Build(K, select("sqlite", table_name, columns, where, order_by, limit, offset)),
         LAMBDA r : IF r.raised # "" THEN r ELSE Return(r.K, r.value.results))

executor_insert(K, table_name, data) == Build(K, insert("sqlite", table_name, data))

executor_update(K, table_name, data, where) ==
    Build(K, update("sqlite", table_name, data, where))

\* delete that hands the connector whatever statement can be put together
executor_delete_unguarded(K, table_name, where) ==
    Build(K, delete_unguarded("sqlite", table_name, where))

executor_delete(K, table_name, where) == Build(K, delete("sqlite", table_name, where))

(***************************************************************************)
(* The connector and the executor as a state machine: one action per call. *)
(* req is the call made last, res what it raised and returned, connector   *)
(* the connector state it left.  hist remembers the last transaction call  *)
(* that succeeded and the rows of table t when the transaction began.      *)
(***************************************************************************)
MaxRows == 2

TableT == [cols |-> <<Column("id", "INTEGER", FALSE, TRUE, Null),
                      Column("name", "TEXT", FALSE, FALSE, Null)>>,
           rows |-> <<>>]
DbT == [EmptyDb EXCEPT !["t"] = TableT]

\* the values are the ints 1 and 2, the strs 'a' and 'b', and None
InsertDatas == {<<>>,
                <<Entry("id", Scalar("1")), Entry("name", Scalar("a"))>>,
                <<Entry("id", Scalar("2")), Entry("name", PyNone)>>}
UpdateDatas == {<<>>, <<Entry("name", Scalar("b"))>>}
ExecWheres == {<<>>,
               <<Entry("id", Scalar("1"))>>,
               <<Entry("name", PyNone)>>,
               <<Entry("id", OpDict("in", <<"1", "2">>))>>,
               <<Entry("id", OpDict("between", <<"1">>))>>}
TempColumn == <<[name |-> "k", type |-> "TEXT", nullable |-> TRUE,
                 primary_key |-> FALSE, default |-> NoDefault]>>
TempColumns == {<<>>, TempColumn}

Fresh(K) == [K EXCEPT !.calls = <<>>, !.ends = <<>>]
Result(out) == [raised |-> out.raised, original |-> out.original, value |-> out.value]
CallOf(o, table, dt, w) ==
    [Request(o, "sqlite", dt, w, <<>>, <<>>, NoInt, NoInt) EXCEPT !.table = table]

Init ==
    /\ req = NoReq
    /\ res = NoRes
    /\ connector = NewConnector(DbT)
    /\ hist = NoHist
    /\ builder = QueryBuilder("sqlite")

Done(call, out, h) ==
    /\ req' = call
    /\ res' = Result(out)
    /\ connector' = out.K
    /\ hist' = h
    /\ builder' = builder

ExecInsert ==
    \E data \in InsertDatas :
        /\ Len(connector.view["t"].rows) < MaxRows
        /\ \E out \in {executor_insert(Fresh(connector), "t", data)} :
              Done(CallOf("insert", "t", data, <<>>), out, hist)

ExecUpdate ==
    \E data \in UpdateDatas, where \in ExecWheres :
        \E out \in {executor_update(Fresh(connector), "t", data, where)} :
            Done(CallOf("update", "t", data, where), out, hist)

ExecDelete ==
    \E where \in ExecWheres :
        \E out \in {executor_delete(Fresh(connector), "t", where)} :
            Done(CallOf("delete", "t", <<>>, where), out, hist)

ExecSelect ==
    \E where \in ExecWheres :
        \E out \in {executor_select(Fresh(connector), "t", <<>>, where, <<>>, NoInt, NoInt)} :
            Done(CallOf("select", "t", <<>>, where), out, hist)

BeginTransaction ==
    \E out \in {begin_transaction(Fresh(connector))} :
        Done(CallOf("begin_transaction", "", <<>>, <<>>), out,
             IF out.raised = ""
             THEN [last_txn_call |-> "begin_transaction",
                   snapshot |-> out.K.view["t"].rows]
             ELSE hist)

CommitTransaction ==
    \E out \in {commit_transaction(Fresh(connector))} :
        Done(CallOf("commit_transaction", "", <<>>, <<>>), out,
             IF out.raised = ""
             THEN [last_txn_call |-> "commit_transaction", snapshot |-> <<>>]
             ELSE hist)

RollbackTransaction ==
    \E out \in {rollback_transaction(Fresh(connector))} :
        Done(CallOf("rollback_transaction", "", <<>>, <<>>), out,
             IF out.raised = ""
             THEN [last_txn_call |-> "rollback_transaction", snapshot |-> <<>>]
             ELSE hist)

CreateTable ==
    \E columns \in TempColumns :
        \E out \in {create_table(Fresh(connector), "temp_t", columns)} :
            Done([CallOf("create_table", "temp_t", <<>>, <<>>) EXCEPT !.columns = columns],
                 out, hist)

DropTable ==
    \E out \in {drop_table(Fresh(connector), "temp_t")} :
        Done(CallOf("drop_table", "temp_t", <<>>, <<>>), out, hist)

Close ==
    \E out \in {close(Fresh(connector))} :
        Done(CallOf("close", "", <<>>, <<>>), out, hist)

Next ==
    \/ ExecInsert \/ ExecUpdate \/ ExecDelete \/ ExecSelect
    \/ BeginTransaction \/ CommitTransaction \/ RollbackTransaction
    \/ CreateTable \/ DropTable \/ Close

Spec == Init /\ [][Next]_vars

(***************************************************************************)
(* The executor's insert, update, delete and select on table t, with       *)
(* values of either type for either column: the ints 1, 2 and 5, the strs  *)
(* 'a', 'b' and '1', and None.                                             *)
(***************************************************************************)
CrudInserts == {<<Entry("id", Scalar("1")), Entry("name", Scalar("a"))>>,
                <<Entry("id", Scalar("2")), Entry("name", PyNone)>>,
                <<Entry("id", Scalar("2")), Entry("name", Scalar("5"))>>}
CrudUpdates == {<<Entry("name", Scalar("b"))>>, <<Entry("id", Scalar("2"))>>}
CrudWheres == {<<>>, <<Entry("id", Scalar("1"))>>,
               <<Entry("id", Scalar("2"))>>,
               <<Entry("id", Scalar(Quote("1")))>>}

CrudInsert ==
    \E data \in CrudInserts :
        /\ Len(connector.view["t"].rows) < MaxRows
        /\ \E out \in {executor_insert(Fresh(connector), "t", data)} :
              Done(CallOf("insert", "t", data, <<>>), out, hist)

CrudUpdate ==
    \E data \in CrudUpdates, where \in CrudWheres :
        \E out \in {executor_update(Fresh(connector), "t", data, where)} :
            Done(CallOf("update", "t", data, where), out, hist)

CrudDelete ==
    \E where \in CrudWheres :
        \E out \in {executor_delete(Fresh(connector), "t", where)} :
            Done(CallOf("delete", "t", <<>>, where), out, hist)

\* limit and offset of a select: neither, both, the offset alone
CrudPages == {<<NoInt, NoInt>>, <<SomeInt(1), SomeInt(1)>>, <<NoInt, SomeInt(1)>>}

CrudSelect ==
    \E where \in CrudWheres, page \in CrudPages :
        \E out \in {executor_select(Fresh(connector), "t", <<>>, where, <<>>,
                                     page[1], page[2])} :
            Done([CallOf("select", "t", <<>>, where)
                     EXCEPT !.limit = page[1], !.offset = page[2]], out, hist)

NextCrud ==
    \/ CrudInsert \/ CrudUpdate \/ CrudDelete \/ CrudSelect
    \/ BeginTransaction \/ CommitTransaction \/ RollbackTransaction

SpecCrud == Init /\ [][NextCrud]_vars

(***************************************************************************)
(* SchemaManager.alter_table.  An operation is a dict with the keys        *)
(* operation, column and definition ("" for a key that is missing); a      *)
(* definition holds type ("" when missing), nullable and primary_key       *)
(* ("absent", "True" or "False") and default.                              *)
(***************************************************************************)
Definition(type, nullable, primary_key, default) ==
    [type |-> type, nullable |-> nullable, primary_key |-> primary_key, default |-> default]
EmptyDefinition == Definition("", "absent", "absent", NoDefault)
Operation(operation, column, definition) ==
    [operation |-> operation, column |-> column, definition |-> definition]

\* dict.get(key, default) for a string and for a bool
GetStr(v, default) == IF v = "" THEN default ELSE v
GetBool(v, default) == IF v = "absent" THEN default ELSE v = "True"

\* the first operation that names the column and drops or modifies it
Matching(operations, name) ==
    {i \in DOMAIN operations :
        /\ operations[i].column = name
        /\ operations[i].operation \in {"drop_column", "modify_column"}}
HasMatch(operations, name) == Matching(operations, name) # {}
FirstMatch(operations, name) ==
    operations[CHOOSE i \in Matching(operations, name) :
                  \A j \in Matching(operations, name) : i <= j]

should_drop(operations, name) ==
    HasMatch(operations, name) /\ FirstMatch(operations, name).operation = "drop_column"
modified_definition(operations, name) ==
    IF HasMatch(operations, name) /\ FirstMatch(operations, name).operation = "modify_column"
    THEN FirstMatch(operations, name).definition
    ELSE EmptyDefinition

\* the default a column of the schema carries over: its default_value, a str
CarriedDefault(column) ==
    IF column.default_value # Null THEN DefaultStr(column.default_value) ELSE NoDefault

\* new_def for a column of the current schema that is kept
NewDef(operations, column) ==
    LET m == modified_definition(operations, column.name)
    IN  IF m # EmptyDefinition
        THEN [name |-> column.name,
              type |-> GetStr(m.type, column.type),
              nullable |-> GetBool(m.nullable, column.nullable),
              primary_key |-> GetBool(m.primary_key, column.primary_key),
              default |-> IF m.default.has THEN m.default ELSE CarriedDefault(column)]
        ELSE [name |-> column.name, type |-> column.type, nullable |-> column.nullable,
              primary_key |-> column.primary_key, default |-> CarriedDefault(column)]

KeptColumns(schema, operations) ==
    SelectSeq(schema, LAMBDA column : ~should_drop(operations, column.name))

\* the add_column operations that are not skipped
AddedOps(schema, operations) ==
    SelectSeq(operations,
              LAMBDA op : /\ op.operation = "add_column"
                          /\ op.column # "" /\ op.definition # EmptyDefinition
                          /\ \A i \in DOMAIN schema : schema[i].name # op.column)

AddedDef(op) ==
    [name |-> op.column,
     type |-> GetStr(op.definition.type, "TEXT"),
     nullable |-> GetBool(op.definition.nullable, TRUE),
     primary_key |-> GetBool(op.definition.primary_key, FALSE),
     default |-> IF op.definition.default.has THEN op.definition.default ELSE DefaultNone]

new_columns(schema, operations) ==
    [i \in DOMAIN KeptColumns(schema, operations) |->
        NewDef(operations, KeptColumns(schema, operations)[i])]
    \o [i \in DOMAIN AddedOps(schema, operations) |->
        AddedDef(AddedOps(schema, operations)[i])]

unchanged_columns(schema, operations) ==
    [i \in DOMAIN KeptColumns(schema, operations) |->
        <<KeptColumns(schema, operations)[i].name>>]

temp_table(table_name) == "temp_" \o table_name

\* a copy that reads the columns in the reverse order
CopyQuery_reversed(table_name, columns) ==
    <<"INSERT INTO", temp_table(table_name), "(">> \o Join(columns, ",")
    \o <<")", "SELECT">>
    \o Join([i \in DOMAIN columns |-> columns[Len(columns) + 1 - i]], ",")
    \o <<"FROM", table_name>>

CopyQuery(table_name, columns) ==
    <<"INSERT INTO", temp_table(table_name), "(">> \o Join(columns, ",")
    \o <<")", "SELECT">> \o Join(columns, ",") \o <<"FROM", table_name>>

\* an except clause that raises and leaves the transaction as it is
RollbackAndRaise_no_rollback(K, original) ==
    Raise(K, "SchemaError", original)

\* the except clause of _alter_table_sqlite: roll back, whatever that raises,
\* and raise SchemaError around the error caught
RollbackAndRaise(K, original) ==
    Raise(rollback_transaction(K).K, "SchemaError", original)

\* the steps from create_table on, each run if the one before returned
Rebuild(K, table_name, schema, operations) ==
    With(create_table(K, temp_table(table_name), new_columns(schema, operations)),
         LAMBDA created :
    IF created.raised # "" THEN RollbackAndRaise(created.K, "QueryError") ELSE
    With(execute_query(created.K,
                       CopyQuery(table_name, unchanged_columns(schema, operations)), <<>>),
         LAMBDA copied :
    IF copied.raised # "" THEN RollbackAndRaise(copied.K, "QueryError") ELSE
    With(drop_table(copied.K, table_name), LAMBDA dropped :
    IF dropped.raised # "" THEN RollbackAndRaise(dropped.K, "QueryError") ELSE
    With(execute_query(dropped.K,
                       <<"ALTER TABLE", temp_table(table_name), "RENAME TO", table_name>>,
                       <<>>),
         LAMBDA renamed :
    IF renamed.raised # "" THEN RollbackAndRaise(renamed.K, "QueryError") ELSE
    With(commit_transaction(renamed.K), LAMBDA committed :
    IF committed.raised # "" THEN RollbackAndRaise(committed.K, "QueryError")
    ELSE Return(committed.K, [success |-> TRUE]))))))

alter_table_sqlite(K, table_name, operations) ==
    With(get_table_schema(K, table_name), LAMBDA schema :
    IF schema.raised # "" THEN RollbackAndRaise(schema.K, "SchemaError")
    ELSE IF schema.value = <<>> THEN RollbackAndRaise(schema.K, "SchemaError")
    ELSE With(begin_transaction(schema.K), LAMBDA begun :
         IF begun.raised # "" THEN RollbackAndRaise(begun.K, "QueryError")
         ELSE Rebuild(begun.K, table_name, schema.value, operations)))

(***************************************************************************)
(* The connectors of the dialects with a native ALTER TABLE.  A statement  *)
(* is applied and committed at once; it fails when the table is missing,   *)
(* when the column it adds exists or the column it drops or alters does    *)
(* not, and when the environment fails it.                                 *)
(***************************************************************************)
WithoutColumn(tbl, c) ==
    [cols |-> SelectSeq(tbl.cols, LAMBDA col : col.name # c),
     rows |-> [i \in DOMAIN tbl.rows |->
                 [k \in DOMAIN tbl.rows[i] \ {c} |-> tbl.rows[i][k]]]]

WithColumn(tbl, col) ==
    [cols |-> Append(tbl.cols, col),
     rows |-> [i \in DOMAIN tbl.rows |->
                 [k \in DOMAIN tbl.rows[i] \cup {col.name} |->
                     IF k = col.name THEN DefaultValue(col.dflt_value)
                     ELSE tbl.rows[i][k]]]]

NativeRun(db, query) ==
    LET name == query[2]
        c == query[4]
    IN  IF query[1] # "ALTER TABLE" \/ ~HasTable(db, name) THEN EngineError(db, "prepare")
        ELSE IF query[3] = "ADD COLUMN"
        THEN IF c \in ColNameSet(db[name]) THEN EngineError(db, "run")
             ELSE EngineOk([db EXCEPT ![name] = WithColumn(@, ParseColumnDef(SubSeq(query, 4, Len(query))))],
                           <<>>, 0)
        ELSE IF query[3] = "DROP COLUMN"
        THEN IF c \notin ColNameSet(db[name]) THEN EngineError(db, "run")
             ELSE EngineOk([db EXCEPT ![name] = WithoutColumn(@, c)], <<>>, 0)
        ELSE IF query[3] = "ALTER COLUMN"
        THEN IF c \notin ColNameSet(db[name]) THEN EngineError(db, "run")
             ELSE EngineOk(db, <<>>, 0)
        ELSE EngineError(db, "prepare")

native_execute_query(K, query) ==
    LET K0 == [K EXCEPT !.connection = "open", !.calls = Append(@, query[1])]
    IN  With(NativeRun(K.view, query), LAMBDA r :
            IF Blows(K0) \/ ~r.ok THEN Raise(Burn(K0), "QueryError", "driver error")
            ELSE Return([Burn(K0) EXCEPT !.view = r.db, !.disk = r.db],
                        [results |-> <<>>, affected_rows |-> 0]))

(***************************************************************************)
(* alter_table on the native path: one ALTER TABLE statement per operation *)
(***************************************************************************)
NullableToken(definition) == IF GetBool(definition.nullable, TRUE) THEN "NULL" ELSE "NOT NULL"
DefaultTokens(definition) ==
    IF definition.default.has THEN <<"DEFAULT", definition.default.v>> ELSE <<>>

\* what one iteration raises before it has a statement, "" when it has one
Invalid(op) ==
    IF op.operation = "" \/ op.column = "" THEN "Invalid alteration operation"
    ELSE IF op.operation \in {"add_column", "modify_column"}
            /\ op.definition = EmptyDefinition THEN "Column definition required"
    ELSE IF op.operation \notin {"add_column", "drop_column", "modify_column"}
         THEN "Unsupported operation"
    ELSE ""

AlterQuery(db_type, table_name, op) ==
    <<"ALTER TABLE", table_name>> \o
    (CASE op.operation = "add_column" ->
            <<"ADD COLUMN", op.column, GetStr(op.definition.type, "TEXT"),
              NullableToken(op.definition)>> \o DefaultTokens(op.definition)
       [] op.operation = "drop_column" -> <<"DROP COLUMN", op.column>>
       [] op.operation = "modify_column" /\ db_type = "postgres" ->
            <<"ALTER COLUMN", op.column, "TYPE", GetStr(op.definition.type, "TEXT")>>
       [] op.operation = "modify_column" /\ db_type = "mysql" ->
            <<"ALTER COLUMN", op.column, "TYPE", GetStr(op.definition.type, "TEXT"),
              NullableToken(op.definition)>> \o DefaultTokens(op.definition)
       [] op.operation = "modify_column" /\ db_type = "mssql" ->
            <<"ALTER COLUMN", op.column, GetStr(op.definition.type, "NVARCHAR(MAX)")>>
       [] OTHER -> <<>>)

ResultKey(op) == op.operation \o "_" \o op.column

\* results[key] = result: a new key goes last, a key held keeps its place
SetResult(results, key, result) ==
    IF \E i \in DOMAIN results : results[i].key = key
    THEN [i \in DOMAIN results |->
            IF results[i].key = key THEN [key |-> key, result |-> result] ELSE results[i]]
    ELSE Append(results, [key |-> key, result |-> result])

\* the loop over operations from the i-th on; an exception leaves the loop
\* and reaches the caller as a SchemaError around it, results left behind
RECURSIVE AlterLoop(_, _, _, _, _, _)
AlterLoop(db_type, K, table_name, operations, i, results) ==
    IF i > Len(operations) THEN Return(K, results)
    ELSE IF Invalid(operations[i]) # "" THEN Raise(K, "SchemaError", "SchemaError")
    ELSE With(native_execute_query(K, AlterQuery(db_type, table_name, operations[i])),
              LAMBDA r :
             IF r.raised # "" THEN Raise(r.K, "SchemaError", r.raised)
             ELSE AlterLoop(db_type, r.K, table_name, operations, i + 1,
                            SetResult(results, ResultKey(operations[i]), r.value)))

alter_table(db_type, K, table_name, operations) ==
    IF db_type = "sqlite" THEN alter_table_sqlite(K, table_name, operations)
    ELSE AlterLoop(db_type, K, table_name, operations, 1, <<>>)

\* _normalize_column_types: the type written for a generic type name
HasSize(column) == "size" \in DOMAIN column
\* the type written when a TEXT column with a size counts as a sized string
NormalType_sized_text(db_type, column) ==
    LET col_type == Upper(column.type)
        pick(sqlite, postgres, mysql, mssql) ==
            CASE db_type = "sqlite" -> sqlite
              [] db_type = "postgres" -> postgres
              [] db_type \in {"mysql", "mariadb"} -> mysql
              [] db_type = "mssql" -> mssql
              [] OTHER -> column.type
    IN  CASE col_type \in {"INT", "INTEGER"} -> pick("INTEGER", "INTEGER", "INT", "INT")
          [] col_type \in {"STRING", "TEXT", "VARCHAR"} ->
                IF HasSize(column)
                THEN pick("TEXT", "VARCHAR(" \o column.size \o ")",
                          "VARCHAR(" \o column.size \o ")",
                          "NVARCHAR(" \o column.size \o ")")
                ELSE pick("TEXT", "TEXT", "TEXT", "NVARCHAR(MAX)")
          [] col_type \in {"BOOL", "BOOLEAN"} ->
                pick("INTEGER", "BOOLEAN", "TINYINT(1)", "BIT")
          [] col_type \in {"DATETIME", "TIMESTAMP"} ->
                pick("TEXT", "TIMESTAMP", "DATETIME", "DATETIME2")
          [] OTHER -> column.type

NormalType(db_type, column) ==
    LET col_type == Upper(column.type)
        pick(sqlite, postgres, mysql, mssql) ==
            CASE db_type = "sqlite" -> sqlite
              [] db_type = "postgres" -> postgres
              [] db_type \in {"mysql", "mariadb"} -> mysql
              [] db_type = "mssql" -> mssql
              [] OTHER -> column.type
    IN  CASE col_type \in {"INT", "INTEGER"} -> pick("INTEGER", "INTEGER", "INT", "INT")
          [] col_type \in {"STRING", "TEXT", "VARCHAR"} ->
                IF HasSize(column) /\ col_type # "TEXT"
                THEN pick("TEXT", "VARCHAR(" \o column.size \o ")",
                          "VARCHAR(" \o column.size \o ")",
                          "NVARCHAR(" \o column.size \o ")")
                ELSE pick("TEXT", "TEXT", "TEXT", "NVARCHAR(MAX)")
          [] col_type \in {"BOOL", "BOOLEAN"} ->
                pick("INTEGER", "BOOLEAN", "TINYINT(1)", "BIT")
          [] col_type \in {"DATETIME", "TIMESTAMP"} ->
                pick("TEXT", "TIMESTAMP", "DATETIME", "DATETIME2")
          [] OTHER -> column.type

normalize_column_types(db_type, columns) ==
    [i \in DOMAIN columns |-> [columns[i] EXCEPT !.type = NormalType(db_type, columns[i])]]

\* the SchemaManager's methods wrap whatever the connector raises
SchemaError(r) == IF r.raised # "" THEN Raise(r.K, "SchemaError", r.raised) ELSE r

schema_list_tables(K) == SchemaError(list_tables(K))
schema_get_table_schema(K, table_name) == SchemaError(get_table_schema(K, table_name))
schema_create_table(db_type, K, table_name, columns) ==
    SchemaError(create_table(K, table_name, normalize_column_types(db_type, columns)))
schema_drop_table(K, table_name) == SchemaError(drop_table(K, table_name))

(***************************************************************************)
(* alter_table as a state machine: a dialect, a database, a fault schedule *)
(* and a request are drawn, one call of alter_table serves the request.    *)
(* req.before is the connector state the call found.                       *)
(***************************************************************************)
MaxOps == 2
MaxFuse == 7

TableA == [cols |-> <<Column("id", "INTEGER", FALSE, TRUE, Null),
                      Column("name", "TEXT", FALSE, FALSE, Null),
                      Column("age", "INTEGER", FALSE, FALSE, Null)>>,
           rows |-> <<[id |-> "1", name |-> "a", age |-> Null]>>]
DbA == [EmptyDb EXCEPT !["t"] = TableA]
\* the same table created with a default: name TEXT DEFAULT 'x', age INTEGER
\* DEFAULT 0
TableX == [TableA EXCEPT !.cols[2] = Column("name", "TEXT", FALSE, FALSE, Quote("x"))]
TableZ == [TableA EXCEPT !.cols[3] = Column("age", "INTEGER", FALSE, FALSE, "0")]
DbX == [EmptyDb EXCEPT !["t"] = TableX]
DbZ == [EmptyDb EXCEPT !["t"] = TableZ]

TypeText == Definition("TEXT", "absent", "absent", NoDefault)
NotNullable == Definition("", "False", "absent", NoDefault)
TextWithDefault == Definition("TEXT", "absent", "absent", DefaultStr("x"))
AllGiven == Definition("INTEGER", "True", "False", DefaultInt("0"))

FaultOps == <<Operation("add_column", "email", TypeText),
              Operation("drop_column", "age", EmptyDefinition)>>
AlterOps ==
    Range(FaultOps) \cup
    {Operation("modify_column", "age", NotNullable),
     Operation("modify_column", "name", TypeText),
     Operation("add_column", "name", TypeText),
     Operation("drop_column", "ghost", EmptyDefinition),
     Operation("modify_column", "ghost", TypeText),
     Operation("rename_column", "age", EmptyDefinition),
     Operation("", "age", EmptyDefinition),
     Operation("add_column", "", TypeText),
     Operation("add_column", "email", EmptyDefinition),
     Operation("modify_column", "age", EmptyDefinition),
     Operation("modify_column", "id", TypeText),
     Operation("modify_column", "name", AllGiven),
     Operation("add_column", "email", TextWithDefault)}

RECURSIVE SeqsOfLen(_, _)
SeqsOfLen(S, n) ==
    IF n = 0 THEN {<<>>} ELSE {Append(q, x) : q \in SeqsOfLen(S, n - 1), x \in S}
SeqsUpTo(S, n) == UNION {SeqsOfLen(S, k) : k \in 0..n}

\* the states alter_table may find: a fresh connector on the database, one
\* whose caller has begun a transaction and written a row, one with no
\* table, one on a database that holds a table temp_t already, and one on
\* each database whose table has a column default
InTransaction ==
    Fresh(executor_insert(begin_transaction(NewConnector(DbA)).K, "t",
                          <<Entry("id", Scalar("2")), Entry("name", Scalar("b"))>>).K)
PreStates ==
    {NewConnector(DbA),
     InTransaction,
     NewConnector(EmptyDb),
     Fresh(create_table(NewConnector(DbA), "temp_t", TempColumn).K),
     NewConnector(DbX),
     NewConnector(DbZ)}

AlterRequest(d, K, operations) ==
    [op |-> "alter_table", db_type |-> d, table |-> "t", operations |-> operations,
     before |-> K]

InitAlter ==
    /\ res = NoRes
    /\ hist = NoHist
    /\ builder = QueryBuilder("unknown")
    /\ \E d \in Dialects :
          \/ \E K \in PreStates, operations \in SeqsUpTo(AlterOps, MaxOps) :
                /\ connector = K
                /\ req = AlterRequest(d, K, operations)
          \/ \E f \in 1..MaxFuse, operations \in SeqsUpTo(Range(FaultOps), MaxOps) :
                /\ connector = [NewConnector(DbA) EXCEPT !.fuse = f]
                /\ req = AlterRequest(d, connector, operations)

AlterSqlite ==
    /\ req.db_type = "sqlite" /\ res = NoRes
    /\ \E out \in {alter_table("sqlite", connector, req.table, req.operations)} :
          res' = Result(out) /\ connector' = out.K
    /\ UNCHANGED <<req, hist, builder>>

AlterNative ==
    /\ req.db_type # "sqlite" /\ res = NoRes
    /\ \E out \in {alter_table(req.db_type, connector, req.table, req.operations)} :
          res' = Result(out) /\ connector' = out.K
    /\ UNCHANGED <<req, hist, builder>>

NextAlter == AlterSqlite \/ AlterNative

SpecAlter == InitAlter /\ [][NextAlter]_vars

(***************************************************************************)
(* The SchemaManager on a SQLite connector that starts with no table:      *)
(* tables are created from column lists with native and generic type       *)
(* names, listed, described and dropped.                                   *)
(***************************************************************************)
SchemaTables == {"t", "sqlitedata"}
ColumnSpec(name, type, nullable, primary_key) ==
    [name |-> name, type |-> type, nullable |-> nullable, primary_key |-> primary_key,
     default |-> NoDefault]
SchemaColumns ==
    {<<>>,
     <<ColumnSpec("id", "INTEGER", TRUE, TRUE), ColumnSpec("name", "TEXT", FALSE, FALSE)>>,
     <<ColumnSpec("id", "int", FALSE, TRUE), ColumnSpec("flag", "boolean", TRUE, FALSE)>>,
     <<[name |-> "name", type |-> "varchar", size |-> "10", nullable |-> FALSE,
        primary_key |-> FALSE, default |-> DefaultStr("x")]>>,
     <<ColumnSpec("id", "INTEGER", TRUE, TRUE), ColumnSpec("k", "INTEGER", TRUE, TRUE)>>,
     <<ColumnSpec("data", "jsonb", TRUE, FALSE)>>}

InitSchema ==
    /\ req = NoReq
    /\ res = NoRes
    /\ connector = NewConnector(EmptyDb)
    /\ hist = NoHist
    /\ builder = QueryBuilder("unknown")

SchemaCreateTable ==
    \E name \in SchemaTables, columns \in SchemaColumns :
        \E out \in {schema_create_table("sqlite", Fresh(connector), name, columns)} :
            Done([CallOf("schema_create_table", name, <<>>, <<>>) EXCEPT !.columns = columns],
                 out, hist)

SchemaListTables ==
    \E out \in {schema_list_tables(Fresh(connector))} :
        Done(CallOf("schema_list_tables", "", <<>>, <<>>), out, hist)

SchemaGetTableSchema ==
    \E name \in SchemaTables :
        \E out \in {schema_get_table_schema(Fresh(connector), name)} :
            Done(CallOf("schema_get_table_schema", name, <<>>, <<>>), out, hist)

SchemaDropTable ==
    \E name \in SchemaTables :
        \E out \in {schema_drop_table(Fresh(connector), name)} :
            Done(CallOf("schema_drop_table", name, <<>>, <<>>), out, hist)

NextSchema == SchemaCreateTable \/ SchemaListTables \/ SchemaGetTableSchema \/ SchemaDropTable

SpecSchema == InitSchema /\ [][NextSchema]_vars

(***************************************************************************)
(* _normalize_column_types on its own: a dialect and a column list are     *)
(* drawn, one call normalises the list.                                    *)
(***************************************************************************)
TypeTokens == {"integer", "INTEGER", "int", "Int", "string", "String", "varchar",
               "VARCHAR", "text", "TEXT", "bool", "boolean", "datetime", "timestamp",
               "jsonb", "Real"}
TypedColumns ==
    {ColumnSpec("c", t, TRUE, FALSE) : t \in TypeTokens}
    \cup {[name |-> "c", type |-> t, size |-> "9", nullable |-> FALSE,
           primary_key |-> FALSE, default |-> DefaultStr("x")] : t \in TypeTokens}
NormalizeInputs ==
    {<<c>> : c \in TypedColumns}
    \cup {<<>>, <<ColumnSpec("id", "int", FALSE, TRUE), ColumnSpec("flag", "bool", TRUE, FALSE)>>}

InitNormalize ==
    /\ res = NoRes
    /\ connector = NewConnector(EmptyDb)
    /\ hist = NoHist
    /\ builder = QueryBuilder("unknown")
    /\ \E d \in Dialects, columns \in NormalizeInputs :
          req = [op |-> "normalize_column_types", db_type |-> d, columns |-> columns]

Normalize ==
    /\ res = NoRes
    /\ res' = [status |-> "ok", columns |-> normalize_column_types(req.db_type, req.columns)]
    /\ UNCHANGED <<req, connector, hist, builder>>

NextNormalize == Normalize

SpecNormalize == InitNormalize /\ [][NextNormalize]_vars

(***************************************************************************)
(* The QueryBuilder on its own: a request is drawn, one call compiles it.  *)
(***************************************************************************)
InitBuilder ==
    /\ res = NoRes
    /\ connector = NewConnector(EmptyDb)
    /\ hist = NoHist
    /\ \E d \in Dialects, w \in Wheres :
          \/ \E dt \in Datas : req = Request("update", d, dt, w, <<>>, <<>>, NoInt, NoInt)
          \/ req = Request("delete", d, <<>>, w, <<>>, <<>>, NoInt, NoInt)
          \/ \E dt \in Datas : w = <<>> /\ req = Request("insert", d, dt, w, <<>>, <<>>, NoInt, NoInt)
          \/ \E c \in ColumnLists : req = Request("select", d, <<>>, w, c, <<>>, NoInt, NoInt)
          \/ \E c \in ColumnLists, ob \in OrderBys, l \in Limits, of \in Offsets :
                /\ w \in PagedWheres
                /\ req = Request("select", d, <<>>, w, c, ob, l, of)
    /\ builder = QueryBuilder(req.db_type)

CompileSelect ==
    /\ req.op = "select" /\ res = NoRes
    /\ res' = select(builder.db_type, req.table, req.columns, req.where, req.order_by,
                     req.limit, req.offset)
    /\ UNCHANGED <<req, connector, hist, builder>>

CompileInsert ==
    /\ req.op = "insert" /\ res = NoRes
    /\ res' = insert(builder.db_type, req.table, req.data)
    /\ UNCHANGED <<req, connector, hist, builder>>

CompileUpdate ==
    /\ req.op = "update" /\ res = NoRes
    /\ res' = update(builder.db_type, req.table, req.data, req.where)
    /\ UNCHANGED <<req, connector, hist, builder>>

CompileDelete ==
    /\ req.op = "delete" /\ res = NoRes
    /\ res' = delete(builder.db_type, req.table, req.where)
    /\ UNCHANGED <<req, connector, hist, builder>>

NextBuilder == CompileSelect \/ CompileInsert \/ CompileUpdate \/ CompileDelete

SpecBuilder == InitBuilder /\ [][NextBuilder]_vars

(***************************************************************************)
(* One QueryBuilder serving a sequence of calls.  hist lists the calls it  *)
(* has served: the request and what was returned.                          *)
(***************************************************************************)
MaxCalls == 3

\* what the caller passes to QueryBuilder(...)
SessionDialects == {"sqlite", "Postgres", "mysql", "MSSQL"}
SessionRequests ==
    {Request("select", "", <<>>,
             <<Entry("x", OpDict("in", <<"a", "b">>)), Entry("y", Scalar("v"))>>,
             <<>>, <<>>, SomeInt(10), SomeInt(20)),
     Request("select", "", <<>>, <<>>, <<"x", "y">>, <<>>, SomeInt(10), NoInt),
     Request("insert", "", <<Entry("p", Scalar("1")), Entry("q", PyNone)>>, <<>>,
             <<>>, <<>>, NoInt, NoInt),
     Request("update", "", <<Entry("p", Scalar("1"))>>,
             <<Entry("x", OpDict("between", <<"a", "b">>)), Entry("y", Scalar("v"))>>,
             <<>>, <<>>, NoInt, NoInt),
     Request("delete", "", <<>>, <<Entry("x", Scalar("v"))>>, <<>>, <<>>, NoInt, NoInt),
     Request("delete", "", <<>>, <<>>, <<>>, <<>>, NoInt, NoInt)}

InitSession ==
    /\ req = NoReq
    /\ res = NoRes
    /\ connector = NewConnector(EmptyDb)
    /\ hist = <<>>
    /\ \E d \in SessionDialects : builder = QueryBuilder(d)

Served(r, out) ==
    /\ Len(hist) < MaxCalls
    /\ req' = r
    /\ res' = out.result
    /\ builder' = out.builder
    /\ hist' = Append(hist, [request |-> r, result |-> out.result])
    /\ UNCHANGED connector

SessionSelect ==
    \E r \in SessionRequests :
        r.op = "select" /\ \E out \in {Serve(builder, r)} : Served(r, out)

SessionInsert ==
    \E r \in SessionRequests :
        r.op = "insert" /\ \E out \in {Serve(builder, r)} : Served(r, out)

SessionUpdate ==
    \E r \in SessionRequests :
        r.op = "update" /\ \E out \in {Serve(builder, r)} : Served(r, out)

SessionDelete ==
    \E r \in SessionRequests :
        r.op = "delete" /\ \E out \in {Serve(builder, r)} : Served(r, out)

NextSession == SessionSelect \/ SessionInsert \/ SessionUpdate \/ SessionDelete

SpecSession == InitSession /\ [][NextSession]_vars

(***************************************************************************)
(* Reading a compiled statement back: its placeholders, left to right.     *)
(***************************************************************************)
MaxParams == Len(ColumnPool) + MaxConds * (MaxOperand + Len(ColumnPool))

Numbered(n) == Placeholder("postgres", n)
IsPlaceholder(tok) == tok = "?" \/ tok \in {Numbered(n) : n \in 1..MaxParams}
Markers(query) == SelectSeq(query, IsPlaceholder)

RequestColumns(r) ==
    {r.data[i].column : i \in DOMAIN r.data} \cup {r.where[i].column : i \in DOMAIN r.where}

\* the column each placeholder of the text stands for, left to right
RECURSIVE OwnersScan(_, _, _, _)
OwnersScan(query, i, cur, cols) ==
    IF i > Len(query) THEN <<>>
    ELSE IF IsPlaceholder(query[i]) THEN <<cur>> \o OwnersScan(query, i + 1, cur, cols)
    ELSE IF query[i] \in cols THEN OwnersScan(query, i + 1, query[i], cols)
    ELSE OwnersScan(query, i + 1, cur, cols)

IsRequestColumn(tok) == tok \in RequestColumns(req)

PlaceholderOwners(r, query) ==
    IF r.op = "insert"
    THEN LET cols == SelectSeq(query, IsRequestColumn)
         IN  [k \in 1..Len(Markers(query)) |-> IF k <= Len(cols) THEN cols[k] ELSE "?"]
    ELSE OwnersScan(query, 1, "?", RequestColumns(r))

\* the column each returned parameter was given for, in list order
ParamOwners(r) ==
    [i \in 1..Len(r.data) |-> r.data[i].column]
    \o Flatten([i \in 1..Len(r.where) |->
                  [j \in 1..Len(WhereCondition(r.db_type, r.where[i].column,
                                               r.where[i].value, 0).params)
                     |-> r.where[i].column]])

Compiled == res.status = "ok"

\* an operand list of a between condition that does not hold two elements
BadBetween(r) ==
    \E i \in DOMAIN r.where :
        /\ r.where[i].value.kind = "dict1"
        /\ r.where[i].value.op = "between"
        /\ Len(r.where[i].value.operand) # 2

\* C2: every compiled statement has as many placeholders as parameters, and
\* its k-th placeholder stands for the column the k-th parameter was given for.
C2_PlaceholdersMatchParams ==
    Compiled =>
        /\ Len(Markers(res.query)) = Len(res.params)
        /\ PlaceholderOwners(req, res.query) = ParamOwners(req)

SetPart(query) ==
    LET w == CHOOSE i \in DOMAIN query : query[i] = "WHERE" IN SubSeq(query, 1, w - 1)
WherePart(query) ==
    LET w == CHOOSE i \in DOMAIN query : query[i] = "WHERE" IN SubSeq(query, w + 1, Len(query))

\* C3: on postgres the placeholders read left to right are $1 .. $n, n the
\* number of parameters; in update the SET clause holds $1 .. $len(data) and
\* the WHERE clause starts at $(len(data) + 1).
C3_PostgresNumbering ==
    (Compiled /\ req.db_type = "postgres") =>
        /\ Markers(res.query) = [k \in 1..Len(res.params) |-> Numbered(k)]
        /\ req.op = "update" =>
              /\ Markers(SetPart(res.query)) = [k \in 1..Len(req.data) |-> Numbered(k)]
              /\ Markers(WherePart(res.query)) # <<>> =>
                    Head(Markers(WherePart(res.query))) = Numbered(Len(req.data) + 1)

\* the requests the builder has to reject
Rejectable(r) ==
    \/ r.op = "insert" /\ r.data = <<>>
    \/ r.op = "update" /\ (r.data = <<>> \/ r.where = <<>>)
    \/ r.op = "delete" /\ r.where = <<>>

\* C4: insert with empty data, update with empty data or empty conditions and
\* delete with empty conditions fail and return no statement; an UPDATE or
\* DELETE that is returned has a WHERE keyword followed by a condition.
C4_EmptyRejected ==
    /\ (res # NoRes /\ Rejectable(req)) => (res.status = "ValueError" /\ res.query = <<>>)
    /\ (Compiled /\ req.op \in {"update", "delete"}) =>
          /\ "WHERE" \in Range(res.query)
          /\ WherePart(res.query) # <<>>

C4_Witness ==
    /\ req.op = "delete" /\ req.where = <<>>
    /\ res.status = "ValueError"

(***************************************************************************)
(* The executor and the connector's transactions.                          *)
(***************************************************************************)
SameConnector(K1, K2) == Fresh(K1) = Fresh(K2)

\* C5: an executor insert, update or delete whose request the builder rejects
\* hands nothing to execute_query, leaves the connector as it was and raises
\* QueryError with the builder's ValueError as its original error.
C5_RejectedBeforeIO ==
    [][(req'.op \in {"insert", "update", "delete"} /\ Rejectable(req')) =>
          /\ res'.raised = "QueryError"
          /\ res'.original = "ValueError"
          /\ connector'.calls = <<>>
          /\ SameConnector(connector', connector)]_vars

C5_Witness ==
    /\ req.op = "update" /\ req.data = <<>>
    /\ res.raised = "QueryError"
    /\ connector.view["t"].rows # <<>>

TxnCalls == {"begin_transaction", "commit_transaction", "rollback_transaction"}
OutOfSequence(K, op) ==
    \/ op = "begin_transaction" /\ K.in_transaction
    \/ op \in {"commit_transaction", "rollback_transaction"} /\ ~K.in_transaction

\* C9: a transaction call out of sequence raises and leaves in_transaction and
\* the database as they were; in_transaction is True exactly when the last
\* transaction call that succeeded was begin_transaction.
C9_TransactionSequence ==
    /\ [](connector.in_transaction <=> hist.last_txn_call = "begin_transaction")
    /\ [][(req'.op \in TxnCalls /\ OutOfSequence(connector, req'.op)) =>
             /\ res'.raised = "QueryError"
             /\ connector'.in_transaction = connector.in_transaction
             /\ connector'.view = connector.view
             /\ connector'.disk = connector.disk]_vars

C9_Witness ==
    /\ req.op = "begin_transaction" /\ res.raised = "QueryError"
    /\ connector.in_transaction
    /\ connector.view["t"].rows # connector.disk["t"].rows

\* what a read of table t through the executor returns on connector state K
ReadAll(K) == Range(executor_select(Fresh(K), "t", <<>>, <<>>, <<>>, NoInt, NoInt).value)
RowOf(data) == [c \in {data[i].column : i \in DOMAIN data} |->
                  ParamValue((CHOOSE e \in Range(data) : e.column = c).value)]
Agrees(row, given) == \A c \in DOMAIN given : row[c] = given[c]
\* the values of data as a column of table t holds them
Held(data) == [c \in DOMAIN RowOf(data) |->
                 Convert(ColOf(TableT, c).affinity, RowOf(data)[c])]

\* C10: inside a transaction a row written through the executor is returned
\* by a read on the same connector; after rollback_transaction no row written
\* since begin_transaction is left; after commit_transaction the rows written
\* are in the committed database.
C10_TransactionRows ==
    /\ []((connector.in_transaction /\ res.raised = "" /\ req.op = "insert") =>
             \E row \in ReadAll(connector) : Agrees(row, Held(req.data)))
    /\ []((connector.in_transaction /\ res.raised = "" /\ req.op = "update"
           /\ res.value.affected_rows > 0) =>
             \E row \in ReadAll(connector) : Agrees(row, Held(req.data)))
    /\ [][(req'.op = "rollback_transaction" /\ res'.raised = "") =>
             /\ \A row \in Range(connector.view["t"].rows) \ Range(hist.snapshot) :
                   row \notin ReadAll(connector')
             /\ connector'.view = connector'.disk]_vars
    /\ [][(req'.op = "commit_transaction" /\ res'.raised = "") =>
             /\ connector'.disk["t"].rows = connector.view["t"].rows
             /\ ReadAll(connector') = Range(connector.view["t"].rows)]_vars

C10_Witness ==
    /\ connector.in_transaction
    /\ req.op = "insert" /\ res.raised = ""
    /\ Len(connector.view["t"].rows) > Len(connector.disk["t"].rows)

\* what select(t, where) through the executor returns on connector state K
Selected(K, where) ==
    Range(executor_select(Fresh(K), "t", <<>>, where, <<>>, NoInt, NoInt).value)
ById(r) == Len(r.where) = 1 /\ r.where[1].column = "id" /\ r.where[1].value.kind = "scalar"
IdOf(r) == ParamValue(r.where[1].value)
Succeeded(r, out) == out.raised = "" /\ "affected_rows" \in DOMAIN out.value

\* what C11 says of an insert, an update and a delete that take the connector
\* from state K to state K2 and return out
InsertReadBack(r, K2) ==
    \A e \in Range(r.data) :
        /\ Selected(K2, <<e>>) = {row \in ReadAll(K2) : row[e.column] = ParamValue(e.value)}
        /\ \E row \in Selected(K2, <<e>>) : Agrees(row, RowOf(r.data))
UpdateReadBack(r, K, K2) ==
    /\ Cardinality(Selected(K2, r.where)) = 1
    /\ \A row \in Selected(K2, r.where) : Agrees(row, RowOf(r.data))
    /\ \A row \in ReadAll(K) : row["id"] # IdOf(r) => row \in ReadAll(K2)
DeleteReadBack(r, K, K2) ==
    /\ \A row \in ReadAll(K2) : row["id"] # IdOf(r)
    /\ \A row \in ReadAll(K) : row["id"] # IdOf(r) => row \in ReadAll(K2)

\* a value the column of table t it is written to, or compared with, holds as
\* it is: an int for an INTEGER column, a str for a TEXT column, None
Unconverted(e) == Convert(ColOf(TableT, e.column).affinity, ParamValue(e.value))
                      = ParamValue(e.value)

Requested(K, table_name, columns) ==
    LET schema == schema_get_table_schema(K, table_name).value
    IN  /\ Len(schema) = Len(columns)
        /\ \A i \in DOMAIN columns :
              /\ schema[i].name = columns[i].name
              /\ schema[i].type = columns[i].type
              /\ schema[i].nullable = columns[i].nullable
              /\ schema[i].primary_key = columns[i].primary_key

\* C12: after SchemaManager.create_table(t, columns) succeeds on sqlite,
\* list_tables contains t and get_table_schema(t) returns one entry per
\* requested column, in order, with the requested name, type, nullable flag
\* and primary_key flag.
C12_CreatedAsRequested ==
    (req.op = "schema_create_table" /\ res.raised = "") =>
        /\ req.table \in Range(schema_list_tables(Fresh(connector)).value)
        /\ Requested(Fresh(connector), req.table, req.columns)

(***************************************************************************)
(* The WHERE clause of a compiled select, read back from its text.         *)
(***************************************************************************)
ClauseEnds == {"ORDER BY", "LIMIT", "OFFSET"}
\* the tokens between WHERE and the clause that follows it
WhereFragment(query) ==
    LET w == IndexOf(query, "WHERE")
        ends == {i \in DOMAIN query : i > w /\ query[i] \in ClauseEnds}
    IN  SubSeq(query, w + 1,
               IF ends = {} THEN Len(query)
               ELSE (CHOOSE i \in ends : \A j \in ends : i <= j) - 1)
\* its sub-expressions: the tokens between the ANDs that join conditions
SubExpressions(query) == SplitConds(WhereFragment(query), 1, <<>>)

EmptyList(e, op) ==
    e.value.kind = "dict1" /\ e.value.op = op /\ Len(e.value.operand) = 0
\* chunk is a sub-expression for the mapping entry e
SubExpressionOf(chunk, e) ==
    IF EmptyList(e, "in") THEN chunk = <<"1", "=", "0">>
    ELSE IF EmptyList(e, "not_in") THEN chunk = <<"1", "=", "1">>
    ELSE Len(chunk) >= 2 /\ chunk[1] = e.column /\ "OR" \notin Range(chunk)

\* C13: the text of select holds the WHERE keyword exactly when the conditions
\* mapping is not empty, and then the clause is one sub-expression per entry,
\* in the order of the mapping, joined by AND.
C13_WherePerEntry ==
    (Compiled /\ req.op = "select") =>
        /\ "WHERE" \in Range(res.query) <=> req.where # <<>>
        /\ req.where # <<>> =>
              /\ Len(SubExpressions(res.query)) = Len(req.where)
              /\ \A i \in DOMAIN req.where :
                    SubExpressionOf(SubExpressions(res.query)[i], req.where[i])

C13_Witness ==
    /\ Compiled /\ req.op = "select"
    /\ Len(req.where) = 2 /\ req.order_by # <<>> /\ req.limit.given
    /\ Len(SubExpressions(res.query)) = 2

RemoveAt(seq, i) == SubSeq(seq, 1, i - 1) \o SubSeq(seq, i + 1, Len(seq))
DataValues(r) == [k \in DOMAIN r.data |-> r.data[k].value]

\* entry i of the conditions adds a marker and nothing else: its
\* sub-expression is the marker, and the other sub-expressions and the
\* parameters are those of the request without the entry
MarkerOnly(i, marker) ==
    LET rest == [req EXCEPT !.where = RemoveAt(@, i)]
    IN  /\ SubExpressions(res.query)[i] = marker
        /\ RemoveAt(SubExpressions(res.query), i)
              = IF rest.where = <<>> THEN <<>> ELSE SubExpressions(Compile(rest).query)
        /\ res.params = IF rest.where = <<>> THEN DataValues(req) ELSE Compile(rest).params

\* C14: an in condition with an empty operand compiles to the always-false
\* marker 1 = 0 and a not_in condition with an empty operand to the always-true
\* marker 1 = 1; neither adds a placeholder or a parameter, no empty IN list
\* is written, and the conditions that follow are numbered as if the entry
\* took no parameter.
C14_EmptyListMarkers ==
    Compiled =>
        /\ \A i \in DOMAIN req.where :
              /\ EmptyList(req.where[i], "in") => MarkerOnly(i, <<"1", "=", "0">>)
              /\ EmptyList(req.where[i], "not_in") => MarkerOnly(i, <<"1", "=", "1">>)
        /\ \A k \in DOMAIN res.query :
              res.query[k] = "(" /\ k > 1 /\ res.query[k - 1] \in {"IN", "NOT IN"}
                  => res.query[k + 1] # ")"

C14_Witness ==
    /\ Compiled /\ req.op = "update" /\ req.db_type = "postgres"
    /\ Len(req.data) = 1 /\ Len(req.where) = 2
    /\ EmptyList(req.where[1], "in")
    /\ SubExpressions(res.query) = <<<<"1", "=", "0">>, <<"y", "=", Numbered(2)>>>>

LastTokens(query, n) == SubSeq(query, Len(query) - n + 1, Len(query))
EndsWith(query, toks) == Len(query) >= Len(toks) /\ LastTokens(query, Len(toks)) = toks
Injected == <<"ORDER BY", "(SELECT NULL)">>
\* the largest integer of a dialect whose engine is modelled
MaximumInteger(db_type, n) == db_type = "sqlite" => n = LargestInteger

\* C16: a select with an offset ends, on mssql, with OFFSET <offset> ROWS,
\* followed by FETCH NEXT <limit> ROWS ONLY exactly when a limit is given, and
\* ORDER BY (SELECT NULL) stands before it exactly when no order_by was given;
\* on the other dialects it ends with LIMIT <n> OFFSET <offset>, n the limit
\* or, without a limit, the largest integer of the dialect, and no ORDER BY is
\* injected.
C16_OffsetPagination ==
    (Compiled /\ req.op = "select" /\ req.offset.given) =>
        LET o == ToString(req.offset.n)
            l == ToString(req.limit.n)
            q == res.query
        IN  IF req.db_type = "mssql"
            THEN /\ EndsWith(q, <<"OFFSET", o, "ROWS">>
                                \o IF req.limit.given
                                   THEN <<"FETCH NEXT", l, "ROWS ONLY">> ELSE <<>>)
                 /\ "FETCH NEXT" \in Range(q) <=> req.limit.given
                 /\ "(SELECT NULL)" \in Range(q) <=> req.order_by = <<>>
                 /\ req.order_by = <<>> =>
                       EndsWith(SubSeq(q, 1, IndexOf(q, "OFFSET") - 1), Injected)
            ELSE /\ Len(q) >= 4 /\ q[Len(q) - 3] = "LIMIT"
                 /\ LastTokens(q, 2) = <<"OFFSET", o>>
                 /\ IF req.limit.given THEN q[Len(q) - 2] = l
                    ELSE IsInt(q[Len(q) - 2]) /\ MaximumInteger(req.db_type, q[Len(q) - 2])
                 /\ "(SELECT NULL)" \notin Range(q)
                 /\ "ORDER BY" \in Range(q) <=> req.order_by # <<>>

\* the statement compiled for the request without its limit
Unpaginated == Compile([req EXCEPT !.limit = NoInt]).query

\* C17: on mssql a select with a limit and no offset is the unpaginated
\* statement with TOP <limit> inserted once, right after the leading SELECT;
\* the column list, the table name, the WHERE clause and the ORDER BY clause
\* are unchanged, whatever the names, and there is no LIMIT or OFFSET clause.
C17_TopAfterSelect ==
    (Compiled /\ req.op = "select" /\ req.db_type = "mssql"
       /\ req.limit.given /\ ~req.offset.given) =>
        /\ res.query = <<"SELECT", "TOP", ToString(req.limit.n)>>
                          \o SubSeq(Unpaginated, 2, Len(Unpaginated))
        /\ Range(res.query) \cap {"LIMIT", "OFFSET"} = {}

\* the parameters returned for the request without entry i of its conditions
ParamsWithout(i) ==
    LET rest == [req EXCEPT !.where = RemoveAt(@, i)]
    IN  IF rest.where = <<>> THEN DataValues(req) ELSE Compile(rest).params
IsBetween(e) == e.value.kind = "dict1" /\ e.value.op = "between"

\* C19: a between condition adds exactly two placeholders and exactly two
\* parameters, whatever operand sequence it is given.
C19_BetweenTakesTwo ==
    Compiled =>
        \A i \in DOMAIN req.where :
            IsBetween(req.where[i]) =>
                /\ Len(Markers(SubExpressions(res.query)[i])) = 2
                /\ Len(res.params) = Len(ParamsWithout(i)) + 2

\* the kinds of entry the parameter counts are stated for
IsListEntry(e) == e.value.kind = "dict1" /\ e.value.op \in {"in", "not_in"}
IsComparison(e) == e.value.kind = "dict1" /\ e.value.op \in CompareOps
IsNullTest(e) == e.value.kind = "dict1" /\ e.value.op = "is_null"
Counted(e) ==
    e.value.kind \in {"scalar", "none"} \/ IsListEntry(e) \/ IsComparison(e) \/ IsNullTest(e)
\* the parameters an entry is to append
EntryParams(e) ==
    CASE e.value.kind = "scalar" -> <<e.value>>
      [] e.value.kind = "none" -> <<>>
      [] IsListEntry(e) -> [j \in DOMAIN e.value.operand |-> Scalar(e.value.operand[j])]
      [] IsComparison(e) -> <<Scalar(e.value.operand[1])>>
      [] IsNullTest(e) -> <<>>
\* the text of an entry that appends no parameter
NullText(e, chunk) ==
    /\ e.value.kind = "none" => chunk = <<e.column, "IS NULL">>
    /\ IsNullTest(e) =>
          chunk = <<e.column, IF e.value.operand[1] = "True" THEN "IS NULL" ELSE "IS NOT NULL">>

\* C20: each entry of the conditions appends its parameters in the order of
\* the mapping: a direct value that is not None one; None none, with the text
\* col IS NULL; in and not_in the elements of the operand, in order; a
\* comparison, like or not_like one; is_null none, with IS NULL for a true
\* operand and IS NOT NULL for a false one; update returns the data values
\* ahead of them.
C20_ParamsPerEntry ==
    (Compiled /\ req.op \in {"select", "update", "delete"}
       /\ \A i \in DOMAIN req.where : Counted(req.where[i])) =>
        /\ res.params = DataValues(req)
                          \o Flatten([i \in DOMAIN req.where |-> EntryParams(req.where[i])])
        /\ \A i \in DOMAIN req.where :
              /\ Len(Markers(SubExpressions(res.query)[i])) = Len(EntryParams(req.where[i]))
              /\ NullText(req.where[i], SubExpressions(res.query)[i])

C20_Witness ==
    /\ Compiled /\ req.op = "update" /\ req.db_type = "postgres"
    /\ Len(req.data) = 1 /\ Len(req.where) = 2
    /\ req.where[1].value.kind = "none"
    /\ IsListEntry(req.where[2]) /\ Len(req.where[2].value.operand) = 2
    /\ res.params = <<req.data[1].value, Scalar("a"), Scalar("b")>>

(***************************************************************************)
(* The type table: the native type of each generic type, by dialect.       *)
(***************************************************************************)
DialectIndex(db_type) ==
    CASE db_type = "sqlite" -> 1 [] db_type = "postgres" -> 2
      [] db_type = "mysql" -> 3 [] db_type = "mssql" -> 4
NativeTypes(generic, n) ==
    CASE generic = "integer" -> <<"INTEGER", "INTEGER", "INT", "INT">>
      [] generic = "sized string" ->
            <<"TEXT", "VARCHAR(" \o n \o ")", "VARCHAR(" \o n \o ")", "NVARCHAR(" \o n \o ")">>
      [] generic = "unsized string" -> <<"TEXT", "TEXT", "TEXT", "NVARCHAR(MAX)">>
      [] generic = "boolean" -> <<"INTEGER", "BOOLEAN", "TINYINT(1)", "BIT">>
      [] generic = "timestamp" -> <<"TEXT", "TIMESTAMP", "DATETIME", "DATETIME2">>
SizeOf(column) == IF HasSize(column) THEN column.size ELSE ""
\* the columns agree in everything but the type
SameButType(a, b) ==
    /\ DOMAIN a = DOMAIN b
    /\ \A f \in DOMAIN a \ {"type"} : a[f] = b[f]

\* the generic type a token names, going by the four tokens of the table
NamedGeneric(column) ==
    CASE Lower(column.type) = "integer" -> "integer"
      [] Lower(column.type) = "string" ->
            IF HasSize(column) THEN "sized string" ELSE "unsized string"
      [] Lower(column.type) = "boolean" -> "boolean"
      [] Lower(column.type) = "timestamp" -> "timestamp"
      [] OTHER -> "none"
\* the generic type a token names, going by the tokens the code recognises
RecognisedGeneric(column) ==
    CASE Upper(column.type) \in {"INT", "INTEGER"} -> "integer"
      [] Upper(column.type) \in {"STRING", "VARCHAR"} ->
            IF HasSize(column) THEN "sized string" ELSE "unsized string"
      [] Upper(column.type) = "TEXT" -> "unsized string"
      [] Upper(column.type) \in {"BOOL", "BOOLEAN"} -> "boolean"
      [] Upper(column.type) \in {"DATETIME", "TIMESTAMP"} -> "timestamp"
      [] OTHER -> "none"
\* C18 as stated: the tokens integer, string, boolean and timestamp are
\* mapped as the type table gives them for the dialect, every other type token
\* is unchanged, and so is every other attribute of each column.
C18_AsStated ==
    (req.op = "normalize_column_types" /\ res # NoRes) =>
        /\ Len(res.columns) = Len(req.columns)
        /\ \A i \in DOMAIN req.columns :
              /\ SameButType(res.columns[i], req.columns[i])
              /\ res.columns[i].type =
                    IF NamedGeneric(req.columns[i]) = "none" THEN req.columns[i].type
                    ELSE NativeTypes(NamedGeneric(req.columns[i]),
                                     SizeOf(req.columns[i]))[DialectIndex(req.db_type)]

\* C18: a type token is read without regard to case; INT and INTEGER are
\* mapped as integer, STRING and VARCHAR as a sized string when the column has
\* a size and as an unsized string when it has none, TEXT as an unsized string
\* with or without a size, BOOL and BOOLEAN as boolean, DATETIME and TIMESTAMP
\* as timestamp, each as the type table gives it for the dialect; every other
\* type token is unchanged, and so is every other attribute of each column.
C18_TypeTable ==
    (req.op = "normalize_column_types" /\ res # NoRes) =>
        /\ Len(res.columns) = Len(req.columns)
        /\ \A i \in DOMAIN req.columns :
              /\ SameButType(res.columns[i], req.columns[i])
              /\ res.columns[i].type =
                    IF RecognisedGeneric(req.columns[i]) = "none" THEN req.columns[i].type
                    ELSE NativeTypes(RecognisedGeneric(req.columns[i]),
                                     SizeOf(req.columns[i]))[DialectIndex(req.db_type)]

C18_Witness ==
    /\ req.op = "normalize_column_types" /\ res # NoRes
    /\ req.db_type = "mssql" /\ Len(req.columns) = 1
    /\ req.columns[1].type = "text" /\ HasSize(req.columns[1])
    /\ res.columns[1].type = "NVARCHAR(MAX)"

(***************************************************************************)
(* The connector's transaction and the engine's.                           *)
(***************************************************************************)
\* a step taken while the connector is in a transaction that is not a call
\* of commit_transaction
InsideTransaction == connector.in_transaction /\ req'.op # "commit_transaction"

\* C27: while the connector is in a transaction, no call but
\* commit_transaction commits on the connection or changes the committed
\* database, whatever the statement, DDL included; and a rollback_transaction
\* that returns leaves the database as it was committed before.
C27_SingleTransaction ==
    [][InsideTransaction =>
          /\ "commit" \notin Range(connector'.ends)
          /\ connector'.disk = connector.disk
          /\ (req'.op = "rollback_transaction" /\ res'.raised = "")
                => connector'.view = connector.disk]_vars

\* C29: a connector that is in a transaction holds an open connection; after
\* close it is not in a transaction.
C29_TransactionNeedsConnection ==
    /\ connector.in_transaction => connector.connection = "open"
    /\ (req.op = "close" /\ res.raised = "") => ~connector.in_transaction

(***************************************************************************)
(* Conditions with an operator the builder does not know.                  *)
(***************************************************************************)
Unrecognised(e) ==
    /\ e.value.kind = "dict1"
    /\ e.value.op \notin ListOps \cup CompareOps \cup {"is_null"}

\* C26: a condition whose value is a one-key mapping with an operator token
\* the builder does not know is compiled, without an error, to col = and one
\* placeholder, and adds exactly one parameter: the value given for the
\* column, that is, the mapping itself.
C26_UnknownOperatorEquality ==
    (req.op \in {"select", "update", "delete"} /\ res # NoRes
       /\ (req.op = "update" => req.data # <<>>) /\ req.where # <<>>) =>
        \A i \in DOMAIN req.where :
            Unrecognised(req.where[i]) =>
                /\ Compiled
                /\ Len(SubExpressions(res.query)[i]) = 3
                /\ SubExpressions(res.query)[i][1] = req.where[i].column
                /\ SubExpressions(res.query)[i][2] = "="
                /\ IsPlaceholder(SubExpressions(res.query)[i][3])
                /\ \E k \in DOMAIN res.params :
                      /\ res.params[k] = req.where[i].value
                      /\ RemoveAt(res.params, k) = ParamsWithout(i)
                      /\ k = 1 + Len(IF i = 1 THEN DataValues(req)
                                     ELSE Compile([req EXCEPT !.where = SubSeq(@, 1, i - 1)]).params)

C26_Witness ==
    /\ Compiled /\ req.op = "update" /\ req.db_type = "postgres"
    /\ Len(req.where) = 2 /\ Unrecognised(req.where[2])
    /\ req.where[1].value.kind = "scalar"
    /\ SubExpressions(res.query)[2] = <<req.where[2].column, "=", "$3">>
    /\ res.params[3] = OpDict("regex", <<"w">>)

(***************************************************************************)
(* alter_table.                                                            *)
(***************************************************************************)
AlterDone == req.op = "alter_table" /\ "raised" \in DOMAIN res
OnSqlite == req.db_type = "sqlite"
Mutating == {"ALTER TABLE", "CREATE TABLE", "INSERT INTO", "DROP TABLE IF EXISTS"}
NothingMutated == Range(connector.calls) \cap Mutating = {}
RebuildStarted == "CREATE TABLE" \in Range(connector.calls)

\* C1: on sqlite, when alter_table has raised after its rebuild started, the
\* table has its original columns and rows and no table temp_<table> is
\* visible.
C1_RebuildAtomic ==
    (AlterDone /\ OnSqlite /\ res.raised # "" /\ RebuildStarted
     /\ ~HasTable(req.before.view, temp_table(req.table))) =>
        /\ connector.view[req.table] = req.before.view[req.table]
        /\ ~HasTable(connector.view, temp_table(req.table))

Malformed(op) ==
    \/ op.operation = "" \/ op.column = ""
    \/ op.operation \in {"add_column", "modify_column"} /\ op.definition = EmptyDefinition
    \/ op.operation \notin {"add_column", "drop_column", "modify_column"}

\* C6: on every dialect a request with a malformed operation is rejected, and
\* no ALTER, CREATE, INSERT or DROP statement of it has reached the connector.
C6_MalformedRejected ==
    (AlterDone /\ \E i \in DOMAIN req.operations : Malformed(req.operations[i])) =>
        /\ res.raised # ""
        /\ NothingMutated

Conflicts(tbl, op) ==
    /\ op.column # ""
    /\ \/ op.operation = "add_column" /\ op.column \in ColNameSet(tbl)
       \/ op.operation \in {"drop_column", "modify_column"} /\ op.column \notin ColNameSet(tbl)

\* C7: on both paths a request on a table that does not exist, one adding a
\* column the table has, and one dropping or modifying a column it does not
\* have are rejected before any statement that changes the database.
C7_ConflictRejected ==
    (AlterDone /\ (\/ ~HasTable(req.before.view, req.table)
                   \/ \E i \in DOMAIN req.operations :
                         Conflicts(req.before.view[req.table], req.operations[i]))) =>
        /\ res.raised # ""
        /\ NothingMutated

\* what the operations before the k-th leave when none of them fails
Applied(k) ==
    AlterLoop(req.db_type, [req.before EXCEPT !.fuse = 0], req.table,
              SubSeq(req.operations, 1, k - 1), 1, <<>>)

\* C8: on a native dialect, when the statement of the k-th operation fails, no
\* later operation is executed, the operations before it stay applied and the
\* error carries their per-operation results.
C8_PartialResults ==
    (AlterDone /\ ~OnSqlite /\ res.raised = "SchemaError" /\ res.original = "QueryError") =>
        /\ connector.view = Applied(Len(connector.calls)).K.view
        /\ res.value = Applied(Len(connector.calls)).value

(***************************************************************************)
(* The rebuild of _alter_table_sqlite.                                     *)
(***************************************************************************)
\* the schema the call read and the column list it passed to create_table
SchemaRead == get_table_schema(Fresh(req.before), req.table).value
Target == new_columns(SchemaRead, req.operations)
TargetNames == [i \in DOMAIN Target |-> Target[i].name]
DropsColumn(name) ==
    \E k \in DOMAIN req.operations :
        req.operations[k].operation = "drop_column" /\ req.operations[k].column = name

\* C21: in the sqlite rebuild the column list passed to create_table holds no
\* column that a drop_column operation of the request names, whatever else
\* the request holds for that column and in whatever order.
C21_DroppedAbsent ==
    (AlterDone /\ OnSqlite /\ RebuildStarted) =>
        \A i \in DOMAIN Target : ~DropsColumn(Target[i].name)

\* the columns of the table the call found that are in the target list, and
\* the column the engine makes of the i-th entry of the target list
Original == req.before.view[req.table].cols
Kept == SelectSeq(Original, LAMBDA c : c.name \in Range(TargetNames))
Created(i) == ParseColumnDef(ColumnDef(Target[i]))
Modifies(k, name) ==
    req.operations[k].operation = "modify_column" /\ req.operations[k].column = name
\* the column c with every attribute the definition m gives
Modified(c, m) ==
    Column(c.name,
           IF m.type = "" THEN c.type ELSE m.type,
           IF m.nullable = "absent" THEN c.notnull ELSE m.nullable = "False",
           IF m.primary_key = "absent" THEN c.pk ELSE m.primary_key = "True",
           IF ~m.default.has THEN c.dflt_value
           ELSE IF m.default.kind = "str" THEN Quote(m.default.v) ELSE m.default.v)

\* C22: in the sqlite rebuild the columns that stay keep their order at the
\* head of the target list; one named by a modify_column is created with the
\* attributes its definition gives and the original value of every other
\* attribute, its default included; one named by no operation is created
\* with all its attributes unchanged.
C22_ModifyKeepsRest ==
    (AlterDone /\ OnSqlite /\ RebuildStarted) =>
        /\ Len(Kept) <= Len(Target)
        /\ \A i \in DOMAIN Kept :
              \/ DropsColumn(Kept[i].name)
              \/ IF \E k \in DOMAIN req.operations : Modifies(k, Kept[i].name)
                 THEN \E k \in DOMAIN req.operations :
                         /\ Modifies(k, Kept[i].name)
                         /\ Created(i) = Modified(Kept[i], req.operations[k].definition)
                 ELSE Created(i) = Kept[i]

\* the k-th operation adds a column the table did not have
Adds(k) ==
    /\ req.operations[k].operation = "add_column"
    /\ req.operations[k].column # "" /\ req.operations[k].definition # EmptyDefinition
    /\ \A i \in DOMAIN Original : Original[i].name # req.operations[k].column
    /\ ~DropsColumn(req.operations[k].column)
Rebuilt == connector.view[req.table]

\* C23: after a sqlite rebuild that succeeded, a column added by an add_column
\* whose definition gives no default has no DEFAULT and every row that was
\* there holds NULL in it; one whose definition gives a default has exactly
\* that default.
C23_AddedDefault ==
    (AlterDone /\ OnSqlite /\ res.raised = "") =>
        \A k \in DOMAIN req.operations :
            Adds(k) =>
                /\ req.operations[k].column \in ColNameSet(Rebuilt)
                /\ IF req.operations[k].definition.default.has
                   THEN ColOf(Rebuilt, req.operations[k].column).dflt_value =
                           IF req.operations[k].definition.default.kind = "str"
                           THEN Quote(req.operations[k].definition.default.v)
                           ELSE req.operations[k].definition.default.v
                   ELSE /\ ColOf(Rebuilt, req.operations[k].column).dflt_value = Null
                        /\ \A r \in DOMAIN Rebuilt.rows :
                              Rebuilt.rows[r][req.operations[k].column] = Null

\* the rebuilt table has the columns create_table makes of the target list
HasTargetColumns ==
    /\ Len(Rebuilt.cols) = Len(Target)
    /\ \A i \in DOMAIN Target : Rebuilt.cols[i] = Created(i)
Common == ColNameSet(req.before.view[req.table]) \cap ColNameSet(Rebuilt)
OriginalRows == req.before.view[req.table].rows
NoShadow ==
    /\ ~HasTable(connector.view, temp_table(req.table))
    /\ ~HasTable(connector.disk, temp_table(req.table))

Begun ==
    /\ AlterDone /\ OnSqlite /\ SchemaRead # <<>>
    /\ begin_transaction(get_table_schema(req.before, req.table).K).raised = ""
\* what the connection was asked after the commit that follows BEGIN
AfterBegin == SubSeq(connector.ends, 2, Len(connector.ends))
Committed == res.raised = "" /\ res.value = [success |-> TRUE] /\ AfterBegin = <<"commit">>
RolledBack == res.raised = "SchemaError" /\ AfterBegin = <<"rollback">>

C28_CallerTransactionKept ==
    (AlterDone /\ OnSqlite /\ req.before.in_transaction) =>
        /\ connector.in_transaction
        /\ connector.ends = <<>>
        /\ connector.view = req.before.view
        /\ connector.txn = req.before.txn

\* C30: in the sqlite rebuild the column list passed to create_table never
\* holds two columns of the same name, whatever the operations are.
C30_TargetNamesDistinct ==
    (AlterDone /\ OnSqlite /\ RebuildStarted) => ~HasDuplicates(TargetNames)

====
